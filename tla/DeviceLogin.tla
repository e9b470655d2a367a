---------------------------- MODULE DeviceLogin ----------------------------
(***************************************************************************)
(* The device-code login: poll_device_token of the CLI against the issuer  *)
(* (backend/src/routes/oidc.ts, the mock issuer), which hands out a code,  *)
(* has it approved in a browser and trades it for tokens once.  Several    *)
(* CLIs log in at the same issuer, which keeps its entries in memory only. *)
(*                                                                         *)
(* Time is discrete.  Ages are kept instead of a clock, up to one past the *)
(* lifetime, where every comparison of the code has its final value.  A    *)
(* step that is due is taken within the tick, except for MaxLag ticks in a *)
(* behaviour: slow replies, a sleep that takes too long.                   *)
(***************************************************************************)
EXTENDS Integers

CONSTANTS
    Client,     \* running kvcdn login commands
    Ttl,        \* expires_in, for the issuer and the CLI, in ticks
    Interval,   \* the polling interval, in ticks
    MaxLag,     \* bound on ticks that pass while a step is due
    MaxLost     \* bound on lost requests and replies and on restarts of the issuer

ASSUME DeviceAssumption ==
    /\ Ttl \in Nat
    /\ Interval \in Nat \ {0}
    /\ MaxLag \in Nat
    /\ MaxLost \in Nat

VARIABLES
    auth,   \* auth[p]: the issuer's entry for the code of p
    age,    \* age[p]: ticks since that entry was made
    cli,    \* cli[p]: what the login command is doing
    lag,    \* ticks that passed while a step was due
    lost    \* lost requests and replies, and restarts

vars == <<auth, age, cli, lag, lost>>

\* The issuer's entry; approvedAt is the age at which it was approved.  It is
\* deleted when the code is traded, found expired or pruned; forgotten is
\* history: a restart took it away.
NotApproved == Ttl + 2

Auth == [present : BOOLEAN, approvedAt : 0..NotApproved, forgotten : BOOLEAN]

NoEntry == [present |-> FALSE, approvedAt |-> NotApproved, forgotten |-> FALSE]
NewEntry == [NoEntry EXCEPT !.present = TRUE]

Ended == {"granted", "timedOut", "expired", "cutOff"}

Phase == {"idle", "requested", "asleep", "polling", "pending", "slowDown",
          "refused", "token"} \union Ended

\* elapsed is started.elapsed(), sleep what is left of the sleep.
Login == [phase : Phase, elapsed : 0..(Ttl + 1), sleep : 0..(2 * Interval)]

TypeOK ==
    /\ auth \in [Client -> Auth]
    /\ age \in [Client -> 0..(Ttl + 1)]
    /\ cli \in [Client -> Login]
    /\ lag \in 0..MaxLag
    /\ lost \in 0..MaxLost

Init ==
    /\ auth = [p \in Client |-> NoEntry]
    /\ age = [p \in Client |-> 0]
    /\ cli = [p \in Client |-> [phase |-> "idle", elapsed |-> 0, sleep |-> 0]]
    /\ lag = 0
    /\ lost = 0

Goto(p, phase) == cli' = [cli EXCEPT ![p].phase = phase]

(***************************************************************************)
(* The issuer                                                              *)
(***************************************************************************)
Expired(p) == age[p] > Ttl

\* Mutant: a new login prunes every other one.
DeviceAuthPrunesAll(p) ==
    /\ cli[p].phase = "idle"
    /\ auth' = [q \in Client |->
                  IF q = p THEN NewEntry
                  ELSE [auth[q] EXCEPT !.present = FALSE]]
    /\ age' = [age EXCEPT ![p] = 0]
    /\ Goto(p, "requested")
    /\ UNCHANGED <<lag, lost>>

\* POST /device/auth: prune what has expired, then make a new entry.
DeviceAuth(p) ==
    /\ cli[p].phase = "idle"
    /\ auth' = [q \in Client |->
                  IF q = p THEN NewEntry
                  ELSE [auth[q] EXCEPT !.present = @ /\ ~Expired(q)]]
    /\ age' = [age EXCEPT ![p] = 0]
    /\ Goto(p, "requested")
    /\ UNCHANGED <<lag, lost>>

\* GET /device/activate does not look at the age of the entry.
Activate(p) ==
    /\ auth[p].present
    /\ auth[p].approvedAt = NotApproved
    /\ auth' = [auth EXCEPT ![p].approvedAt = age[p]]
    /\ UNCHANGED <<age, cli, lag, lost>>

\* POST /token: the entry is deleted before the token is signed and sent.
\* slow_down is the answer of an issuer that is polled too fast; the mock
\* issuer never sends it.
Token(p) ==
    LET answer(phase, present) ==
            Goto(p, phase) /\ auth' = [auth EXCEPT ![p].present = present]
        entry == auth[p] IN
    /\ cli[p].phase = "polling"
    /\ \/ ~entry.present /\ answer("refused", FALSE)
       \/ entry.present /\ Expired(p) /\ answer("refused", FALSE)
       \/ /\ entry.present /\ ~Expired(p)
          /\ entry.approvedAt = NotApproved
          /\ answer("pending", TRUE) \/ answer("slowDown", TRUE)
       \/ /\ entry.present /\ ~Expired(p)
          /\ entry.approvedAt # NotApproved
          /\ answer("token", FALSE)
    /\ UNCHANGED <<age, lag, lost>>

\* The issuer is restarted: its map of entries is empty again.
Restart ==
    /\ lost < MaxLost
    /\ lost' = lost + 1
    /\ auth' = [p \in Client |-> [auth[p] EXCEPT !.present = FALSE,
                                                !.forgotten = @ \/ auth[p].present]]
    /\ UNCHANGED <<age, cli, lag>>

(***************************************************************************)
(* The CLI                                                                 *)
(***************************************************************************)
Asleep(p, elapsed, sleep) ==
    cli' = [cli EXCEPT ![p] = [phase |-> "asleep", elapsed |-> elapsed,
                               sleep |-> sleep]]

\* The reply of /device/auth starts the CLI's own clock and its first sleep.
Started(p) ==
    /\ cli[p].phase = "requested"
    /\ Asleep(p, 0, Interval)
    /\ UNCHANGED <<auth, age, lag, lost>>

Poll(p) ==
    /\ cli[p].phase = "asleep"
    /\ cli[p].sleep = 0
    /\ Goto(p, "polling")
    /\ UNCHANGED <<auth, age, lag, lost>>

\* Mutants: slow_down adds two intervals; the CLI gives up at half the lifetime.
KeepPollingFor(p, limit, slowSleep) ==
    /\ cli[p].phase \in {"pending", "slowDown"}
    /\ IF cli[p].elapsed >= limit THEN Goto(p, "timedOut")
       ELSE Asleep(p, cli[p].elapsed,
                   IF cli[p].phase = "slowDown" THEN slowSleep ELSE Interval)
    /\ UNCHANGED <<auth, age, lag, lost>>
KeepPollingSlower(p) == KeepPollingFor(p, Ttl, 3 * Interval)
KeepPollingHalf(p) == KeepPollingFor(p, Ttl \div 2, 2 * Interval)

\* authorization_pending; slow_down adds an interval before the next sleep.
KeepPolling(p) ==
    /\ cli[p].phase \in {"pending", "slowDown"}
    /\ IF cli[p].elapsed >= Ttl THEN Goto(p, "timedOut")
       ELSE Asleep(p, cli[p].elapsed,
                   IF cli[p].phase = "slowDown" THEN 2 * Interval ELSE Interval)
    /\ UNCHANGED <<auth, age, lag, lost>>

\* Mutant: an expired code is polled for again.
FinishRetries(p) ==
    /\ \/ cli[p].phase = "refused" /\ Asleep(p, cli[p].elapsed, Interval)
       \/ cli[p].phase = "token" /\ Goto(p, "granted")
    /\ UNCHANGED <<auth, age, lag, lost>>

Finish(p) ==
    /\ \/ cli[p].phase = "refused" /\ Goto(p, "expired")
       \/ cli[p].phase = "token" /\ Goto(p, "granted")
    /\ UNCHANGED <<auth, age, lag, lost>>

(***************************************************************************)
(* Time and the network                                                    *)
(***************************************************************************)
Due(p) == \/ cli[p].phase \in {"requested", "polling", "pending", "slowDown",
                               "refused", "token"}
          \/ cli[p].phase = "asleep" /\ cli[p].sleep = 0

UpTo(n, limit) == IF n < limit THEN n + 1 ELSE n

Tick ==
    LET late == \E p \in Client : Due(p) IN
    /\ late => lag < MaxLag
    /\ lag' = IF late THEN lag + 1 ELSE lag
    /\ age' = [p \in Client |-> UpTo(age[p], Ttl + 1)]
    /\ cli' = [p \in Client |->
                 IF cli[p].phase \in {"idle", "requested"} \union Ended THEN cli[p]
                 ELSE [cli[p] EXCEPT !.elapsed = UpTo(@, Ttl + 1),
                                     !.sleep = IF @ > 0 THEN @ - 1 ELSE 0]]
    /\ UNCHANGED <<auth, lost>>

\* A request or a reply of a poll is lost; the CLI gives the login up.
Lose(p) ==
    /\ cli[p].phase \in {"polling", "pending", "slowDown", "refused", "token"}
    /\ lost < MaxLost
    /\ lost' = lost + 1
    /\ Goto(p, "cutOff")
    /\ UNCHANGED <<auth, age, lag>>

\* What is due of the exchange between the CLI and the issuer.
Step(p) == Started(p) \/ Poll(p) \/ Token(p) \/ KeepPolling(p) \/ Finish(p)

Next ==
    \/ \E p \in Client : DeviceAuth(p) \/ Activate(p) \/ Step(p) \/ Lose(p)
    \/ Restart
    \/ Tick

Spec == Init /\ [][Next]_vars

\* Time passes, and what is due is done.
FairSpec == Spec /\ WF_vars(Tick) /\ \A p \in Client : WF_vars(Step(p))

(***************************************************************************)
(* Properties                                                              *)
(***************************************************************************)
\* An approval that leaves the CLI one more poll within the lifetime is not
\* lost on it: two intervals, as slow_down may double one, and what was late.
\* Only a restart of the issuer loses it (the maps of oidc.ts:26-27).
ApprovalReachesCli ==
    \A p \in Client :
        cli[p].phase \in {"timedOut", "expired"} /\ ~auth[p].forgotten =>
            auth[p].approvedAt + 2 * Interval + lag > Ttl

\* A login is told that its code expired only when it did, or when the issuer
\* was restarted and knows it no more: neither the pruning for another login nor
\* the single use of a code takes a live one away.
RefusedOnlyExpired ==
    \A p \in Client :
        cli[p].phase \in {"refused", "expired"} => Expired(p) \/ auth[p].forgotten

\* Every login ends, approved or not, whatever the issuer answers.
LoginEnds ==
    \A p \in Client : cli[p].phase = "requested" ~> cli[p].phase \in Ended
=============================================================================
