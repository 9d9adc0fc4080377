------------------------------ MODULE Requests ------------------------------
(***************************************************************************)
(* The requests of MakeCredential and GetAssertion (credential.go): the    *)
(* arguments they refuse, and the CBOR maps they send, as functions from   *)
(* the numbers of the members that are there.  Strings, ids and hashes are *)
(* numbers, 0 the empty one; lists are sequences, options the set of those *)
(* that are given.                                                         *)
(***************************************************************************)
EXTENDS PinProto, COSE

mcClientDataHash == 1
mcRP == 2
mcUser == 3
mcPubKeyCredParams == 4
mcExcludeList == 5
mcOptions == 7
mcPinUvAuthParam == 8
mcPinUvAuthProtocol == 9

gaRPID == 1
gaClientDataHash == 2
gaAllowList == 3
gaOptions == 5
gaPinUvAuthParam == 6
gaPinUvAuthProtocol == 7

(* A token, as PINToken returns it: its protocol and its bytes. *)
NoToken == [proto |-> 0, raw |-> Noise(0)]
Valid(token) == token.raw.len > 0

(* Mutant: names that were not given are sent all the same. *)
userMapAll(u) == [m \in {"id", "name", "displayName"} |-> u[m]]

userMap(u) == [m \in {"id"} \cup {x \in {"name", "displayName"} : u[x] # 0} |-> u[m]]

Descriptor(c, type) ==
    [m \in {"type", "id"} \cup {x \in {"transports"} : c.transports # {}} |->
        IF m = "type" THEN type ELSE c[m]]

(* Mutant: the type is sent as the caller left it. *)
descriptorsBare(creds) == [i \in DOMAIN creds |-> Descriptor(creds[i], creds[i].type)]

descriptors(creds) ==
    [i \in DOMAIN creds |->
        Descriptor(creds[i], IF creds[i].type = "" THEN "public-key" ELSE creds[i].type)]

credParams(algs) ==
    LET asked == IF algs = << >> THEN <<AlgES256>> ELSE algs IN
    [i \in DOMAIN asked |-> [alg |-> asked[i], type |-> "public-key"]]

MakeCredentialError(r) ==
    IF r.hash = 0 THEN "hash" ELSE IF r.rp.id = 0 THEN "rp"
    ELSE IF r.user.id = 0 THEN "user" ELSE "none"

(* The members for the token are there both or neither; the parameter is over *)
(* the client data hash.                                                       *)
MakeCredentialMap(r) ==
    [m \in {mcClientDataHash, mcRP, mcUser, mcPubKeyCredParams}
             \cup {x \in {mcExcludeList} : r.exclude # << >>}
             \cup {x \in {mcOptions} : r.options # {}}
             \cup {x \in {mcPinUvAuthParam, mcPinUvAuthProtocol} : Valid(r.token)} |->
        CASE m = mcClientDataHash    -> r.hash
          [] m = mcRP                -> [id |-> r.rp.id, name |-> r.rp.name]
          [] m = mcUser              -> userMap(r.user)
          [] m = mcPubKeyCredParams  -> credParams(r.algs)
          [] m = mcExcludeList       -> descriptors(r.exclude)
          [] m = mcOptions           -> r.options
          [] m = mcPinUvAuthParam    -> Mac(r.token.proto, r.token.raw, r.hash)
          [] m = mcPinUvAuthProtocol -> r.token.proto]

GetAssertionError(r) == IF r.rpID = 0 THEN "rp" ELSE IF r.hash = 0 THEN "hash" ELSE "none"

(* The request, with the members for the token at these numbers. *)
AssertionMembers(r, param, protocol) ==
    [m \in {gaRPID, gaClientDataHash}
             \cup {x \in {gaAllowList} : r.allow # << >>}
             \cup {x \in {gaOptions} : r.options # {}}
             \cup {x \in {param, protocol} : Valid(r.token)} |->
        CASE m = gaRPID           -> r.rpID
          [] m = gaClientDataHash -> r.hash
          [] m = gaAllowList      -> descriptors(r.allow)
          [] m = gaOptions        -> r.options
          [] m = param            -> Mac(r.token.proto, r.token.raw, r.hash)
          [] m = protocol         -> r.token.proto]

(* Mutant: the token goes where a registration has it. *)
GetAssertionMapMC(r) == AssertionMembers(r, mcPinUvAuthParam, mcPinUvAuthProtocol)

GetAssertionMap(r) == AssertionMembers(r, gaPinUvAuthParam, gaPinUvAuthProtocol)
=============================================================================
