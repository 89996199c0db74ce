------------------------------- MODULE MCFleet -------------------------------
(***************************************************************************)
(* Sweeps for TLC: one of three sources of two homes, and a pair of sweeps *)
(* with a slot each, the one of which may lead or join the other's calls.  *)
(***************************************************************************)
EXTENDS Fleet, MCClient

CONSTANTS g1, g2

TwoAndOne  == (g1 :> <<c1, c2>>) @@ (g2 :> <<c3>>)
ThreeSources == g1 :> <<c1, c2, c3>>

SharedHome == (c1 :> h1) @@ (c2 :> h1) @@ (c3 :> h1)
OneEach    == (c1 :> h1) @@ (c2 :> h2) @@ (c3 :> h1)

\* The CLI of one home logs out, or in to either account.
OneMoves == (h1 :> {}) @@ (h2 :> {Login(a1, "usable"), Login(a2, "usable"),
                                  Login(NoAccount, "no_credentials")})

\* All homes are asked for one provider, whose accounts sort a2 before a1.
OneProvider == [s \in Homes |-> 1]
Ranks == [a \in Accounts \cup {NoAccount} |->
            CASE a = a1 -> 2 [] a = a2 -> 1 [] OTHER -> 0]

GoodRefusedOrLate == {Good, Refused, TimedOut}
=============================================================================
