------------------------------ MODULE PinProto ------------------------------
(***************************************************************************)
(* The PIN/UV auth protocols (pinproto.go), with symbolic cryptography: a  *)
(* derived key is known by its derivation and the pair of ECDH keys behind *)
(* it, a ciphertext by its key and plaintext, an HMAC by its key and data. *)
(* Lengths in bytes are kept, since every check in the code is a length    *)
(* check.                                                                  *)
(***************************************************************************)
EXTENDS Integers

PINProtocolOne == 1
PINProtocolTwo == 2
BlockSize == 16    \* aes.BlockSize

(* A byte string: what it means, and of which PIN, token or request. *)
Bytes(len, what, of) == [len |-> len, what |-> what, of |-> of]

Noise(len) == Bytes(len, "noise", 0)

(* The x coordinate two parties agree on. *)
ECDH(a, b) == {a, b}

Derived(how, secret) == [how |-> how, secret |-> secret]

NoKeys == [proto |-> 0, aes |-> Derived("none", {}), hmac |-> Derived("none", {})]

deriveKeys(proto, secret) ==
    CASE proto = PINProtocolOne ->
           [err |-> "none", keys |-> [proto |-> proto, aes  |-> Derived("sha256", secret),
                                                       hmac |-> Derived("sha256", secret)]]
      [] proto = PINProtocolTwo ->
           [err |-> "none", keys |-> [proto |-> proto, aes  |-> Derived("CTAP2 AES key", secret),
                                                       hmac |-> Derived("CTAP2 HMAC key", secret)]]
      [] OTHER -> [err |-> "protocol", keys |-> NoKeys]

WholeBlocks(len) == len > 0 /\ len % BlockSize = 0

(* Bytes that the initialisation vector takes in front of the ciphertext. *)
Prefix(keys) == IF keys.proto = PINProtocolTwo THEN BlockSize ELSE 0

Ciphertext(len, key, plain) == [len |-> len, key |-> key, plain |-> plain]

NoCiphertext == Ciphertext(0, Derived("none", {}), Noise(0))

encrypt(keys, plain) ==
    IF ~WholeBlocks(plain.len) THEN [err |-> "blocks", out |-> NoCiphertext]
    ELSE [err |-> "none", out |-> Ciphertext(plain.len + Prefix(keys), keys.aes, plain)]

(* Mutant: the vector is not taken off the front. *)
decryptWhole(keys, cipher) ==
    IF ~WholeBlocks(cipher.len) THEN [err |-> "blocks", out |-> Noise(0)]
    ELSE [err |-> "none",
          out |-> IF cipher.key = keys.aes /\ cipher.len = cipher.plain.len
                  THEN cipher.plain ELSE Noise(cipher.len)]

(* The wrong key, or the wrong place for the vector, gives noise: nothing    *)
(* authenticates a ciphertext.                                               *)
decrypt(keys, cipher) ==
    IF cipher.len < Prefix(keys) THEN [err |-> "vector", out |-> Noise(0)]
    ELSE IF ~WholeBlocks(cipher.len - Prefix(keys)) THEN [err |-> "blocks", out |-> Noise(0)]
    ELSE [err |-> "none",
          out |-> IF cipher.key = keys.aes /\ cipher.len - Prefix(keys) = cipher.plain.len
                  THEN cipher.plain ELSE Noise(cipher.len - Prefix(keys))]

(* An HMAC-SHA-256 under a protocol, truncated by protocol one. *)
Mac(proto, key, data) ==
    [len |-> IF proto = PINProtocolOne THEN 16 ELSE 32, key |-> key, data |-> data]

(* One block of the hash; 0 is the empty PIN. *)
pinHash(keys, pin) ==
    IF pin = 0 THEN [err |-> "empty", out |-> NoCiphertext]
    ELSE encrypt(keys, Bytes(16, "pin", pin))

agree(proto, priv, authenticator) == deriveKeys(proto, ECDH(priv, authenticator))

(* Mutant: any length will do. *)
TokenLengthAny(proto, len) == len > 0

(* The lengths of a token that PINToken accepts. *)
TokenLength(proto, len) == len = 32 \/ (proto = PINProtocolOne /\ len = 16)
=============================================================================
