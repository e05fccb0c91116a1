------------------------ MODULE MCConcurrencyLimiter ------------------------
(***************************************************************************)
(* The instance of ConcurrencyLimiter for TLC.                             *)
(***************************************************************************)
EXTENDS ConcurrencyLimiter, TLC

CONSTANTS a1, a2, GlobalCap, Cap1, Cap2

MCAgents == {a1, a2}
MCLimit == (a1 :> Cap1) @@ (a2 :> Cap2) @@ (Global :> GlobalCap)

=============================================================================
