------------------------------- MODULE MCClient -------------------------------
(***************************************************************************)
(* Small instances of Client for TLC.  A tick stands for BaseBackoff; the  *)
(* slack, 5% in the code, is scaled with it so that it spans a whole tick. *)
(***************************************************************************)
EXTENDS ClientGate, Classify, TLC, FiniteSets

CONSTANTS h1, h2, a1, a2, c1, c2, c3

Symmetric == Permutations(Callers)

NoHeader == [kind |-> "absent", seconds |-> 0]
Seconds(n) == [kind |-> "seconds", seconds |-> n]
Status(code, header) ==
    HttpJSON([outcome |-> "status", code |-> code, header |-> header])

Good        == HttpJSON([outcome |-> "decoded", verdict |-> "ok"])
Throttled   == Status(429, Seconds(4))
Hurried     == Status(429, NoHeader)    \* its backoff is shorter than the interval
Refused     == Status(401, NoHeader)
TimedOut    == HttpJSON([outcome |-> "deadline"])
Undecoded   == HttpJSON([outcome |-> "undecoded"])

\* Nothing is asked: no provider gives up early, or agy is not there.
AlwaysAsks  == {}
NoBinary    == {"not_installed"}

FewAnswers  == {Good, Refused, TimedOut}
AllAnswers  == {Good, Refused, TimedOut, Throttled, Hurried}
GoodOrLate  == {Good, TimedOut}
GoodOrSchema == {Good, Undecoded}
OnlyGood    == {Good}

Interval2 == [a \in Accounts |-> 2]
Interval3 == [a \in Accounts |-> 3]

Login(a, v) == [account |-> a, verdict |-> v]

\* Every home is logged in to one account and stays so.
OneAccount   == [s \in Homes |-> Login(a1, "usable")]
NobodyLogsIn == [s \in Homes |-> {}]

\* A home's token expires, and it logs in to another account or out.
LoginSwitches == [s \in Homes |-> {Login(a2, "usable"),
                                   Login(a1, "token_expired"),
                                   Login(NoAccount, "no_credentials")}]

\* A home logs in to another account; a home logs out.
AccountSwitch == [s \in Homes |-> {Login(a1, "usable"), Login(a2, "usable")}]
LogsOut       == [s \in Homes |-> {Login(NoAccount, "no_credentials")}]
=============================================================================
