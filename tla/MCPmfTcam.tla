----------------------------- MODULE MCPmfTcam -----------------------------
(* Instances of PmfTcam for TLC.                                           *)
EXTENDS PmfTcam, TLC
CONSTANTS t1, t2, t3

(* IPv4 and IPv6 ACLs: narrow and wide keys in one AG; L2 in another.      *)
MixedShapes == (t1 :> <<"IPV4", "INGRESS">>) @@ (t2 :> <<"IPV6", "INGRESS">>)
                 @@ (t3 :> <<"L2", "INGRESS">>)
(* The tuple tables: every group of the AG is wide; L2 is narrow.          *)
TupleShapes == (t1 :> <<"TUPLE", "INGRESS">>) @@ (t2 :> <<"TUPLE6", "INGRESS">>)
                 @@ (t3 :> <<"L2", "INGRESS">>)

(* One wide and one narrow group, of different AGs.                        *)
TwoShapes == (t1 :> <<"IPV6", "INGRESS">>) @@ (t3 :> <<"L2", "INGRESS">>)

(* Qualifiers and actions, in bits, for each declared key size: a key that *)
(* is rounded up, one its actions need, the largest and the smallest.      *)
BitsFor(quals, actions) == [quals |-> quals, actions |-> actions]
TableBits ==
  [type \in DOMAIN FgTable |->
     CASE type \in {"IPV6", "TUPLE"}                -> BitsFor(161, 32)
       [] type = "TUPLE6"                           -> BitsFor(320, 128)
       [] type \in {"QOS_V6", "DEF_COPP", "USR_COPP"} -> BitsFor(240, 97)
       [] type = "IPV4"                             -> BitsFor(80, 33)
       [] type \in {"L2", "QOS_V4", "QOS_L2", "PRE_COPP"} -> BitsFor(160, 64)
       [] type = "COPP_HDR"                         -> BitsFor(1, 32)]

(* Banks in 80-bit keys: of one size, as all pairs of the chip but the     *)
(* first; one smaller than the other; and sizes in the order of the chip's *)
(* (4016, 4096, ..., 512), where bank 0 is smaller than its partner and the*)
(* last pair is even.                                                      *)
EvenKeys == [b \in Bank |-> 4]
UnevenKeys == [b \in Bank |-> IF b = 0 THEN 4 ELSE 8]
ChipKeys == [b \in Bank |-> IF b = 1 THEN 8 ELSE 4]
SumOfKeys ==
  [B \in SUBSET Bank |-> MapThenSumSet(LAMBDA b : KeysPerBank[b], B)]
============================================================================
