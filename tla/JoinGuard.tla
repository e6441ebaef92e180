----------------------------- MODULE JoinGuard ------------------------------
(* The guard of apps/web/api/p2p-signaling.js against guessing room codes:  *)
(* an address whose joins find no room MaxFailedJoins times is refused      *)
(* until its record is over.  The rooms themselves are P2pSignaling's; here *)
(* a code is right or wrong.                                                *)
EXTENDS Integers, Sequences, FiniteSets

CONSTANTS
    Guessers,       \* addresses that join rooms
    MaxFailedJoins, \* MAX_FAILED_JOINS
    JoinWindow,     \* FAILED_JOIN_WINDOW_MS in ticks
    NoRecord        \* no record of the address

ASSUME JoinAssumption ==
    /\ MaxFailedJoins \in Nat \ {0} /\ JoinWindow \in Nat
    /\ NoRecord \notin [count : Nat, resetAt : Nat]

VARIABLES
    failedJoins,    \* failedJoinsByIp
    guesses         \* history: when the joins of each address found no room

joinVars == <<failedJoins, guesses>>

JoinInit ==
    /\ failedJoins = [ip \in Guessers |-> NoRecord]
    /\ guesses = [ip \in Guessers |-> <<>>]

Over(record, time) == record # NoRecord /\ time > record.resetAt

(* isJoinRateLimited: a record that is over is forgotten.                   *)
JoinRateLimited(ip, time) ==
    /\ failedJoins[ip] # NoRecord
    /\ ~Over(failedJoins[ip], time)
    /\ failedJoins[ip].count >= MaxFailedJoins

Forgotten(ip, time) == IF Over(failedJoins[ip], time) THEN NoRecord ELSE failedJoins[ip]

\* Defect: a failure after the first begins the count anew.
RecordedAnew(record, time) == [count |-> 1, resetAt |-> time + JoinWindow]

(* recordFailedJoin: a failure counts on the record there is.               *)
Recorded(record, time) ==
    IF record = NoRecord THEN [count |-> 1, resetAt |-> time + JoinWindow]
    ELSE [record EXCEPT !.count = @ + 1]

(* POST /api/v1/p2p/rooms/:id/join with a wrong code, with the code of a    *)
(* room there is, and refused.                                              *)
JoinMisses(ip, time) ==
    /\ ~JoinRateLimited(ip, time)
    /\ failedJoins' = [failedJoins EXCEPT ![ip] = Recorded(Forgotten(ip, time), time)]
    /\ guesses' = [guesses EXCEPT ![ip] = Append(@, time)]

JoinFinds(ip, time) ==
    /\ ~JoinRateLimited(ip, time)
    /\ failedJoins' = [failedJoins EXCEPT ![ip] = Forgotten(ip, time)]
    /\ UNCHANGED guesses

JoinRefused(ip, time) ==
    /\ JoinRateLimited(ip, time)
    /\ UNCHANGED joinVars

(* The daemon's interval drops the records that are over.                   *)
CleanRecords(time) ==
    /\ \E ip \in Guessers : Over(failedJoins[ip], time)
    /\ failedJoins' = [ip \in Guessers |-> Forgotten(ip, time)]
    /\ UNCHANGED guesses

-----------------------------------------------------------------------------
(* An address gets at most twice MaxFailedJoins wrong codes looked up in    *)
(* any stretch of time as long as a record lives, and its present record    *)
(* accounts for each of them since it was made, however records end, are    *)
(* dropped and begin again (isJoinRateLimited, recordFailedJoin, daemon).   *)
GuessesAreBounded ==
    \A ip \in Guessers :
        LET mine == DOMAIN guesses[ip]
            record == failedJoins[ip]
        IN  /\ \A i \in mine :
                Cardinality({j \in mine : j >= i /\ guesses[ip][j] - guesses[ip][i] <= JoinWindow})
                    <= 2 * MaxFailedJoins
            /\ record # NoRecord =>
                record.count = Cardinality({j \in mine : guesses[ip][j] >= record.resetAt - JoinWindow})
=============================================================================
