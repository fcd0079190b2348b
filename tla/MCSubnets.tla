------------------------------ MODULE MCSubnets ------------------------------
(***************************************************************************)
(* Short addresses for TLC: octets of 4 bits and nibbles of 2, both        *)
(* families with 2 octets.  An IPv4 subnet has boundaries at /4 and /8, an *)
(* IPv6 one at /2, /4, /6 and /8.  The sample has the first and the last   *)
(* address, both sides of the middle, and addresses whose octets and whose *)
(* nibbles all differ.                                                     *)
(***************************************************************************)
EXTENDS Subnets, TLC

TwoOctets == "v4" :> 2 @@ "v6" :> 2

\* 27, 99 and 228 have the nibbles 0 1 2 3, 1 2 0 3 and 3 2 1 0.
Addresses8 == {0, 16, 27, 99, 127, 128, 228, 255}
=============================================================================
