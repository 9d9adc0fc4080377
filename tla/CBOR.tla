-------------------------------- MODULE CBOR --------------------------------
(***************************************************************************)
(* CBOR maps with numbered members, as cbor.Unmarshal (external) leaves    *)
(* them to this package: an item is its CBOR type, and the bytes or the    *)
(* number in it where the package looks at them.  Lists are not empty:     *)
(* parseInfo refuses an empty list of versions.                            *)
(***************************************************************************)
EXTENDS Integers, Sequences

Item(type) == [type |-> type, bytes |-> << >>, val |-> 0]
ByteString(b) == [type |-> "bytes", bytes |-> b, val |-> 0]
IntItem(n) == [type |-> "int", bytes |-> << >>, val |-> n]

(* Which CBOR types go into which Go type. *)
Fits(into, item) ==
    CASE into = "string"          -> item.type = "text"
      [] into = "[]byte"          -> item.type = "bytes"
      [] into = "[]string"        -> item.type = "texts"
      [] into = "int"             -> item.type = "int"
      [] into = "[]int"           -> item.type = "ints"
      [] into = "bool"            -> item.type = "bool"
      [] into = "map[string]bool" -> item.type = "options"
      [] into = "COSE_Key"        -> item.type = "cose"
      [] into = "struct"          -> item.type \in {"descriptor", "user", "statement", "options", "cose"}

(* A member that must be there (field), and one that may be. *)
field(r, m, into) == m \in DOMAIN r /\ Fits(into, r[m])
optional(r, m, into) == m \in DOMAIN r => Fits(into, r[m])
=============================================================================
