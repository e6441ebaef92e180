----------------------------- MODULE ApiServer ------------------------------
(* The request path of apps/web/server.js: the rate limiter first, then the *)
(* routes.  Requests of several clients, the handlers that wait, the        *)
(* limiter's timer and the clock interleave.                                *)
EXTENDS RateLimiter, ApiKeys, Intake, JoinGuard

CONSTANTS
    MaxAsked,       \* bound on the requests
    Mixed           \* bound: whether one behaviour exercises several of the developer
                    \* routes, the job route and joins, which share the limiter only

VARIABLE asked      \* requests so far

serverVars == <<now, store, admitted, told, keyStore, auditLog, answer, subs, stored, jobs, failedJoins,
                guesses, asked>>

ServerInit == LimiterInit /\ KeysInit /\ IntakeInit /\ JoinInit /\ asked = 0

Asks == asked < MaxAsked /\ asked' = asked + 1

Developing == auditLog # <<>>
Submitting == \E s \in Submissions : subs[s].at # "new"
Joining == guesses # [ip \in Guessers |-> <<>>]

(* classifyRequest: each route counts in a group of its own or in the       *)
(* general one.                                                             *)
JobGroup == "job"
GeneralGroup == "default"
PollGroup == "poll"

ASSUME GroupsAssumption == {JobGroup, GeneralGroup, PollGroup} \subseteq Groups

(* A request the limiter refuses reaches no route.                          *)
TooMany(client) ==
    /\ Asks
    /\ \E group \in Groups : Refused(<<client, group>>)
    /\ UNCHANGED <<keyVars, intakeVars, joinVars>>

Develop(client, credential) ==
    /\ Asks
    /\ Mixed \/ ~(Submitting \/ Joining)
    /\ Admitted(<<client, GeneralGroup>>)
    /\ DeveloperRequest(credential, now)
    /\ UNCHANGED <<intakeVars, joinVars>>

Submit(client, s) ==
    /\ Asks
    /\ Mixed \/ ~(Developing \/ Joining)
    /\ Admitted(<<client, JobGroup>>)
    /\ PostJob(s)
    /\ UNCHANGED <<keyVars, joinVars>>

Join(client) ==
    /\ client \in Guessers
    /\ Asks
    /\ Mixed \/ ~(Developing \/ Submitting)
    /\ Admitted(<<client, GeneralGroup>>)
    /\ \/ JoinMisses(client, now)
       \/ JoinFinds(client, now)
       \/ JoinRefused(client, now)
    /\ UNCHANGED <<keyVars, intakeVars>>

(* GET /api/v1/jobs/:id only reads the queue.                               *)
PollJob(client) ==
    /\ Asks
    /\ Admitted(<<client, PollGroup>>)
    /\ UNCHANGED <<keyVars, intakeVars, joinVars>>

Handle(s) ==
    /\ IntakeStep(s, now)
    /\ UNCHANGED <<limiterVars, keyVars, joinVars, asked>>

ServerPrune == Prune /\ UNCHANGED <<keyVars, intakeVars, joinVars, asked>>
ServerClean == CleanRecords(now) /\ UNCHANGED <<limiterVars, keyVars, intakeVars, asked>>
ServerTick == LimiterTick /\ UNCHANGED <<keyVars, intakeVars, joinVars, asked>>

ServerNext ==
    \/ \E client \in Clients : TooMany(client) \/ PollJob(client) \/ Join(client)
    \/ \E client \in Clients, credential \in Credentials : Develop(client, credential)
    \/ \E client \in Clients, s \in Submissions : Submit(client, s)
    \/ \E s \in Submissions : Handle(s)
    \/ ServerPrune
    \/ ServerClean
    \/ ServerTick

ServerSpec == ServerInit /\ [][ServerNext]_serverVars

(* The handler of a submission goes on: its writes end, one way or the      *)
(* other.                                                                   *)
FairServerSpec == ServerSpec /\ \A s \in Submissions : WF_serverVars(Handle(s))

(* The limiter, the keys, the intake and the join guard keep their stores   *)
(* in shape under one another's requests (server.js:42-79).                 *)
ServerTypeOK == LimiterTypeOK /\ KeysTypeOK /\ IntakeTypeOK

(* The two limiters keep their word at the edges of their windows: bursts   *)
(* and guesses are bounded, and who waits as told is served                 *)
(* (rate-limiter.js:78-112, p2p-signaling.js:59-75).                        *)
LimitsHold == BurstsAreBounded /\ WaitingIsEnough /\ GuessesAreBounded

(* "All future requests using this key will be rejected."                   *)
(* (developer-routes.js:291), "Invalid, revoked, or expired API key."       *)
(* (api-key-auth.js): once a key is revoked or its time is over it stays    *)
(* so, no use of it is counted and whoever presents it is turned away,      *)
(* however the requests of others, the clock and the timers come between.   *)
DeadKeysStayOut ==
    [][\A k \in Created :
        Dead(k, now) =>
            /\ Dead(k, now)'
            /\ keyStore'[k].requestCount = keyStore[k].requestCount
            /\ (answer' # answer /\ answer'.credential = k) => answer'.status = 401]_serverVars

(* Every submission that passed the limiter is answered.                    *)
SubmissionsEnd == \A s \in Submissions : subs[s].at = "taking" ~> subs[s].at = "answered"
=============================================================================
