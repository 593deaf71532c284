--------------------------- MODULE MCTenantService --------------------------
(***************************************************************************)
(* TenantService for TLC.  Two pools stand for cpu, ram and disk: disk is  *)
(* treated as cpu is, by a fit check, and only ram orders the hosts.       *)
(***************************************************************************)
EXTENDS TenantService, TLC

TwoPools == {"cpu", "ram"}

TwoFree == [k \in TwoPools |-> 2]

OneFree == [k \in TwoPools |-> 1]

OneSize == {[k \in TwoPools |-> 1]}

\* A tenant that fills a host's ram, and one that fills its cpu.
SkewedSizes == {[cpu |-> 1, ram |-> 2], [cpu |-> 2, ram |-> 1]}

ServiceSymmetry == Permutations(Requests) \cup Permutations(Tenants)
=============================================================================
