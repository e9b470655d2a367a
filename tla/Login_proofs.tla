---------------------------- MODULE Login_proofs ----------------------------
(***************************************************************************)
(* Proofs about DeviceLogin and Login: for any number of logins, any       *)
(* lifetimes and intervals, and any number of late steps, lost messages,   *)
(* restarts of the issuer and requests at the callback servers.            *)
(***************************************************************************)
EXTENDS Login, TLAPS

Approved(p) == auth[p].approvedAt # NotApproved

\* Before the issuer has answered a poll for the last time, the entry is there,
\* has expired or was forgotten; afterwards it is gone.
EntryKept(p) ==
    /\ cli[p].phase \in {"requested", "asleep", "polling", "pending", "slowDown"}
          => auth[p].present \/ Expired(p) \/ auth[p].forgotten
    /\ cli[p].phase \in {"idle", "refused", "expired"} => ~auth[p].present
    /\ cli[p].phase \in {"refused", "expired"} => Expired(p) \/ auth[p].forgotten

\* The CLI's clock starts after the issuer's.
ClocksAgree(p) ==
    /\ cli[p].phase \notin {"idle", "requested"} => cli[p].elapsed <= age[p]
    /\ cli[p].phase = "timedOut" => cli[p].elapsed >= Ttl

\* How far the next poll, or the last one, can lie behind an approval.
PollFollows(p) ==
    /\ Approved(p) /\ cli[p].phase \in {"requested", "pending", "slowDown"}
          => age[p] <= auth[p].approvedAt + lag
    /\ Approved(p) /\ cli[p].phase = "asleep"
          => age[p] + cli[p].sleep <= auth[p].approvedAt + 2 * Interval + lag
    /\ Approved(p) /\ cli[p].phase = "polling"
          => age[p] <= auth[p].approvedAt + 2 * Interval + lag
    /\ cli[p].phase \in {"refused", "expired", "timedOut"} /\ ~auth[p].forgotten
          => auth[p].approvedAt + 2 * Interval + lag > Ttl

ClientInv(p) == EntryKept(p) /\ ClocksAgree(p) /\ PollFollows(p)

DeviceInv == TypeOK /\ \A p \in Client : ClientInv(p)

-----------------------------------------------------------------------------
\* No login has begun, no entry is there and no clock runs.
LEMMA InitDevice == Init => DeviceInv
<1> SUFFICES ASSUME Init PROVE DeviceInv
  OBVIOUS
<1>1. 0 \in 0..(Ttl + 1) /\ 0 \in 0..(2 * Interval) /\ NotApproved \in 0..NotApproved
      /\ 0 \in 0..MaxLag /\ 0 \in 0..MaxLost
  BY DeviceAssumption DEF NotApproved
<1>2. TypeOK
  BY <1>1 DEF Init, TypeOK, Auth, NoEntry, Login, Phase
<1>3. \A p \in Client : ClientInv(p)
  BY DEF Init, ClientInv, EntryKept, ClocksAgree, PollFollows, Approved, Expired, NoEntry
<1> QED
  BY <1>2, <1>3 DEF DeviceInv

\* The numbers of a client.
LEMMA Numbers ==
    ASSUME DeviceInv, NEW p \in Client
    PROVE  /\ Ttl \in Nat /\ Interval \in Nat /\ Interval >= 1 /\ MaxLag \in Nat
           /\ NotApproved = Ttl + 2
           /\ age[p] \in Nat /\ age[p] <= Ttl + 1
           /\ auth[p].approvedAt \in Nat /\ auth[p].approvedAt <= Ttl + 2
           /\ cli[p].elapsed \in Nat /\ cli[p].elapsed <= Ttl + 1
           /\ cli[p].sleep \in Nat /\ cli[p].sleep <= 2 * Interval
           /\ lag \in Nat
<1>1. /\ age[p] \in 0..(Ttl + 1) /\ auth[p] \in Auth /\ cli[p] \in Login
      /\ lag \in 0..MaxLag
  BY DEF DeviceInv, TypeOK
<1>2. auth[p].approvedAt \in 0..(Ttl + 2)
  BY <1>1 DEF Auth, NotApproved
<1>3. cli[p].elapsed \in 0..(Ttl + 1) /\ cli[p].sleep \in 0..(2 * Interval)
  BY <1>1 DEF Login
<1>4. Ttl \in Nat /\ Interval \in Nat /\ Interval >= 1 /\ MaxLag \in Nat
  BY DeviceAssumption
<1> QED
  BY <1>1, <1>2, <1>3, <1>4 DEF NotApproved

\* A step changes one client's phase, sleep or clock only.
LEMMA ClientStep ==
    ASSUME DeviceInv, NEW p \in Client, NEW c \in Login, NEW a \in Auth,
           cli' = [cli EXCEPT ![p] = c], auth' = [auth EXCEPT ![p] = a],
           UNCHANGED <<age, lag>>, lost' \in 0..MaxLost, ClientInv(p)'
    PROVE  DeviceInv'
<1>1. /\ cli' \in [Client -> Login] /\ auth' \in [Client -> Auth]
      /\ \A q \in Client \ {p} : cli'[q] = cli[q] /\ auth'[q] = auth[q]
  BY DEF DeviceInv, TypeOK
<1>2. TypeOK'
  BY <1>1 DEF DeviceInv, TypeOK
<1>3. ASSUME NEW q \in Client \ {p} PROVE ClientInv(q)'
  BY <1>1 DEF DeviceInv, ClientInv, EntryKept, ClocksAgree, PollFollows, Approved, Expired
<1> QED
  BY <1>2, <1>3 DEF DeviceInv

\* As ClientStep, for steps that only move the CLI to another phase.
LEMMA GotoStep ==
    ASSUME DeviceInv, NEW p \in Client, NEW phase \in Phase, Goto(p, phase)
    PROVE  \E c \in Login :
              /\ cli' = [cli EXCEPT ![p] = c] /\ cli'[p] = c
              /\ c.phase = phase /\ c.elapsed = cli[p].elapsed /\ c.sleep = cli[p].sleep
<1> DEFINE c == [cli[p] EXCEPT !.phase = phase]
<1>1. cli \in [Client -> Login] /\ cli[p] \in Login
  BY DEF DeviceInv, TypeOK
<1>2. c \in Login /\ c.phase = phase /\ c.elapsed = cli[p].elapsed /\ c.sleep = cli[p].sleep
  BY <1>1 DEF Login
<1>3. cli' = [cli EXCEPT ![p] = c]
  BY DEF Goto
<1> HIDE DEF c
<1> QED
  BY <1>1, <1>2, <1>3

\* The sleep begins.
LEMMA AsleepStep ==
    ASSUME DeviceInv, NEW p \in Client, NEW elapsed \in 0..(Ttl + 1),
           NEW sleep \in 0..(2 * Interval), Asleep(p, elapsed, sleep)
    PROVE  \E c \in Login :
              /\ cli' = [cli EXCEPT ![p] = c] /\ cli'[p] = c
              /\ c.phase = "asleep" /\ c.elapsed = elapsed /\ c.sleep = sleep
<1> DEFINE c == [phase |-> "asleep", elapsed |-> elapsed, sleep |-> sleep]
<1>1. c \in Login
  BY DEF Login, Phase
<1>2. cli' = [cli EXCEPT ![p] = c] /\ cli \in [Client -> Login]
  BY DEF Asleep, DeviceInv, TypeOK
<1> QED
  BY <1>1, <1>2

\* A new entry is made; of the others only what has expired goes.
LEMMA StepDeviceAuth ==
    ASSUME DeviceInv, NEW p \in Client, DeviceAuth(p)
    PROVE  DeviceInv'
<1>1. PICK c \in Login : /\ cli' = [cli EXCEPT ![p] = c] /\ cli'[p] = c /\ c.phase = "requested"
  <2>1. "requested" \in Phase
    BY DEF Phase
  <2> QED
    BY <2>1, GotoStep DEF DeviceAuth
<1>2. /\ auth' \in [Client -> Auth]
      /\ auth'[p].present /\ auth'[p].approvedAt = NotApproved
      /\ \A q \in Client \ {p} :
            /\ auth'[q].approvedAt = auth[q].approvedAt
            /\ auth'[q].forgotten = auth[q].forgotten
            /\ auth'[q].present <=> auth[q].present /\ ~Expired(q)
  <2>1. auth \in [Client -> Auth]
    BY DEF DeviceInv, TypeOK
  <2>2. NotApproved \in 0..NotApproved
    BY DeviceAssumption DEF NotApproved
  <2> QED
    BY <2>1, <2>2 DEF DeviceAuth, Auth, NewEntry, NoEntry
<1>3. /\ age' \in [Client -> 0..(Ttl + 1)] /\ age'[p] = 0
      /\ \A q \in Client \ {p} : age'[q] = age[q]
      /\ UNCHANGED <<lag, lost>>
  BY DeviceAssumption DEF DeviceAuth, DeviceInv, TypeOK
<1>4. \A q \in Client \ {p} : cli'[q] = cli[q]
  BY <1>1 DEF DeviceInv, TypeOK
<1>5. TypeOK'
  BY <1>1, <1>2, <1>3 DEF DeviceInv, TypeOK
<1>6. ClientInv(p)'
  BY <1>1, <1>2, <1>3 DEF ClientInv, EntryKept, ClocksAgree, PollFollows, Approved
<1>7. ASSUME NEW q \in Client \ {p} PROVE ClientInv(q)'
  BY <1>2, <1>3, <1>4 DEF DeviceInv, ClientInv, EntryKept, ClocksAgree, PollFollows, Approved, Expired
<1> QED
  BY <1>5, <1>6, <1>7 DEF DeviceInv

\* The approval is noted with the age of the entry; the next poll is yet to come.
LEMMA StepActivate ==
    ASSUME DeviceInv, NEW p \in Client, Activate(p)
    PROVE  DeviceInv'
<1> DEFINE a == [auth[p] EXCEPT !.approvedAt = age[p]]
<1>1. auth \in [Client -> Auth] /\ cli \in [Client -> Login] /\ age[p] \in 0..(Ttl + 1) /\ lost \in 0..MaxLost
  BY DEF DeviceInv, TypeOK
<1>2. age[p] \in 0..NotApproved
  BY <1>1, DeviceAssumption DEF NotApproved
<1>3. /\ a \in Auth /\ a.present = auth[p].present /\ a.approvedAt = age[p]
      /\ a.forgotten = auth[p].forgotten
  BY <1>1, <1>2 DEF Auth
<1>4. /\ auth[p].present /\ auth' = [auth EXCEPT ![p] = a] /\ cli' = [cli EXCEPT ![p] = cli[p]]
      /\ UNCHANGED <<age, cli, lag, lost>>
  BY <1>1 DEF Activate
<1> HIDE DEF a
<1>5. auth'[p] = a
  BY <1>1, <1>4
<1>6. EntryKept(p)' /\ ClocksAgree(p)'
  BY <1>3, <1>4, <1>5 DEF DeviceInv, ClientInv, EntryKept, ClocksAgree, Expired
<1>7. PollFollows(p)'
  <2>1. cli[p].phase \notin {"refused", "expired"}
    BY <1>4 DEF DeviceInv, ClientInv, EntryKept
  <2>2. cli[p].phase = "timedOut" => age[p] >= Ttl
    BY Numbers DEF DeviceInv, ClientInv, ClocksAgree
  <2> QED
    BY <1>3, <1>4, <1>5, <2>1, <2>2, Numbers DEF PollFollows
<1> QED
  BY <1>1, <1>3, <1>4, <1>6, <1>7, ClientStep DEF ClientInv

\* A step of the CLI alone.
LEMMA CliStep ==
    ASSUME DeviceInv, NEW p \in Client, NEW c \in Login, cli' = [cli EXCEPT ![p] = c],
           UNCHANGED <<auth, age, lag>>, lost' \in 0..MaxLost, ClientInv(p)'
    PROVE  DeviceInv'
<1>1. auth' = [auth EXCEPT ![p] = auth[p]] /\ auth[p] \in Auth
  BY DEF DeviceInv, TypeOK
<1> QED
  BY <1>1, ClientStep

\* The first sleep is one interval.
LEMMA StepStarted ==
    ASSUME DeviceInv, NEW p \in Client, Started(p)
    PROVE  DeviceInv'
<1>1. PICK c \in Login : /\ cli' = [cli EXCEPT ![p] = c] /\ cli'[p] = c
                         /\ c.phase = "asleep" /\ c.elapsed = 0 /\ c.sleep = Interval
  <2>1. 0 \in 0..(Ttl + 1) /\ Interval \in 0..(2 * Interval)
    BY DeviceAssumption
  <2> QED
    BY <2>1, AsleepStep DEF Started
<1>2. cli[p].phase = "requested" /\ UNCHANGED <<auth, age, lag, lost>>
  BY DEF Started
<1>3. ClientInv(p)'
  BY <1>1, <1>2, Numbers
     DEF DeviceInv, ClientInv, EntryKept, ClocksAgree, PollFollows, Approved, Expired
<1>4. lost' \in 0..MaxLost
  BY <1>2 DEF DeviceInv, TypeOK
<1> QED
  BY <1>1, <1>2, <1>3, <1>4, CliStep

\* The sleep is over: the poll comes at once, or lag has grown.
LEMMA StepPoll ==
    ASSUME DeviceInv, NEW p \in Client, Poll(p)
    PROVE  DeviceInv'
<1>1. PICK c \in Login : /\ cli' = [cli EXCEPT ![p] = c] /\ cli'[p] = c
                         /\ c.phase = "polling" /\ c.elapsed = cli[p].elapsed
  <2>1. "polling" \in Phase
    BY DEF Phase
  <2> QED
    BY <2>1, GotoStep DEF Poll
<1>2. cli[p].phase = "asleep" /\ cli[p].sleep = 0 /\ UNCHANGED <<auth, age, lag, lost>>
  BY DEF Poll
<1>3. ClientInv(p)'
  BY <1>1, <1>2, Numbers
     DEF DeviceInv, ClientInv, EntryKept, ClocksAgree, PollFollows, Approved, Expired
<1>4. lost' \in 0..MaxLost
  BY <1>2 DEF DeviceInv, TypeOK
<1> QED
  BY <1>1, <1>2, <1>3, <1>4, CliStep

\* The issuer answers a poll.
LEMMA StepToken ==
    ASSUME DeviceInv, NEW p \in Client, Token(p)
    PROVE  DeviceInv'
<1> DEFINE Answered(phase, present) ==
              Goto(p, phase) /\ auth' = [auth EXCEPT ![p].present = present]
<1>1. cli[p].phase = "polling" /\ UNCHANGED <<age, lag, lost>>
  BY DEF Token
<1>2. \/ (auth[p].present => Expired(p)) /\ Answered("refused", FALSE)
      \/ /\ auth[p].present /\ ~Approved(p)
         /\ Answered("pending", TRUE) \/ Answered("slowDown", TRUE)
      \/ Answered("token", FALSE)
  BY DEF Token, Approved
<1>3. lost' \in 0..MaxLost
  BY <1>1 DEF DeviceInv, TypeOK
<1>4. ASSUME NEW phase \in Phase, NEW present \in BOOLEAN, Answered(phase, present)
      PROVE  \E c \in Login, a \in Auth :
                /\ cli' = [cli EXCEPT ![p] = c] /\ cli'[p] = c
                /\ c.phase = phase /\ c.elapsed = cli[p].elapsed
                /\ auth' = [auth EXCEPT ![p] = a] /\ auth'[p] = a
                /\ a.present = present /\ a.approvedAt = auth[p].approvedAt
                /\ a.forgotten = auth[p].forgotten
  <2> DEFINE a == [auth[p] EXCEPT !.present = present]
  <2>1. auth \in [Client -> Auth] /\ auth[p] \in Auth
    BY DEF DeviceInv, TypeOK
  <2>2. a \in Auth /\ a.present = present /\ a.approvedAt = auth[p].approvedAt /\ a.forgotten = auth[p].forgotten
    BY <2>1 DEF Auth
  <2>3. auth' = [auth EXCEPT ![p] = a]
    BY <1>4
  <2>4. PICK c \in Login : /\ cli' = [cli EXCEPT ![p] = c] /\ cli'[p] = c
                           /\ c.phase = phase /\ c.elapsed = cli[p].elapsed
    BY <1>4, GotoStep
  <2> HIDE DEF a
  <2>5. auth'[p] = a
    BY <2>1, <2>3
  <2> QED
    BY <2>2, <2>3, <2>4, <2>5
<1>5. {"refused", "pending", "slowDown", "token"} \subseteq Phase
  BY DEF Phase
<1> HIDE DEF Answered
<1>6. CASE (auth[p].present => Expired(p)) /\ Answered("refused", FALSE)
  <2>1. PICK c \in Login, a \in Auth :
                /\ cli' = [cli EXCEPT ![p] = c] /\ cli'[p] = c
                /\ c.phase = "refused" /\ c.elapsed = cli[p].elapsed
                /\ auth' = [auth EXCEPT ![p] = a] /\ auth'[p] = a
                /\ a.present = FALSE /\ a.approvedAt = auth[p].approvedAt
                /\ a.forgotten = auth[p].forgotten
    BY <1>4, <1>5, <1>6
  <2>2. Expired(p) \/ auth[p].forgotten
    BY <1>1, <1>6 DEF DeviceInv, ClientInv, EntryKept
  <2>3. ClientInv(p)'
    BY <1>1, <2>1, <2>2, Numbers
       DEF DeviceInv, ClientInv, EntryKept, ClocksAgree, PollFollows, Approved, Expired
  <2> QED
    BY <1>1, <1>3, <2>1, <2>3, ClientStep
<1>7. ASSUME NEW phase \in {"pending", "slowDown"}, auth[p].present, ~Approved(p),
             Answered(phase, TRUE)
      PROVE  DeviceInv'
  <2>1. PICK c \in Login, a \in Auth :
                /\ cli' = [cli EXCEPT ![p] = c] /\ cli'[p] = c
                /\ c.phase = phase /\ c.elapsed = cli[p].elapsed
                /\ auth' = [auth EXCEPT ![p] = a] /\ auth'[p] = a
                /\ a.present = TRUE /\ a.approvedAt = auth[p].approvedAt
                /\ a.forgotten = auth[p].forgotten
    BY <1>4, <1>5, <1>7
  <2>2. ClientInv(p)'
    BY <1>1, <1>7, <2>1, Numbers
       DEF DeviceInv, ClientInv, EntryKept, ClocksAgree, PollFollows, Approved, Expired
  <2> QED
    BY <1>1, <1>3, <2>1, <2>2, ClientStep
<1>8. CASE Answered("token", FALSE)
  <2>1. PICK c \in Login, a \in Auth :
                /\ cli' = [cli EXCEPT ![p] = c] /\ cli'[p] = c
                /\ c.phase = "token" /\ c.elapsed = cli[p].elapsed
                /\ auth' = [auth EXCEPT ![p] = a] /\ auth'[p] = a
                /\ a.present = FALSE /\ a.approvedAt = auth[p].approvedAt
                /\ a.forgotten = auth[p].forgotten
    BY <1>4, <1>5, <1>8
  <2>2. ClientInv(p)'
    BY <1>1, <2>1, Numbers
       DEF DeviceInv, ClientInv, EntryKept, ClocksAgree, PollFollows, Approved, Expired
  <2> QED
    BY <1>1, <1>3, <2>1, <2>2, ClientStep
<1> QED
  BY <1>2, <1>6, <1>7, <1>8

\* Unless the lifetime is over, the next sleep is of two intervals at most.
LEMMA StepKeepPolling ==
    ASSUME DeviceInv, NEW p \in Client, KeepPolling(p)
    PROVE  DeviceInv'
<1>1. cli[p].phase \in {"pending", "slowDown"} /\ UNCHANGED <<auth, age, lag, lost>>
  BY DEF KeepPolling
<1>2. lost' \in 0..MaxLost
  BY <1>1 DEF DeviceInv, TypeOK
<1>3. CASE cli[p].elapsed >= Ttl
  <2>1. PICK c \in Login : /\ cli' = [cli EXCEPT ![p] = c] /\ cli'[p] = c
                           /\ c.phase = "timedOut" /\ c.elapsed = cli[p].elapsed
    <3>1. "timedOut" \in Phase
      BY DEF Phase, Ended
    <3> QED
      BY <1>3, <3>1, GotoStep DEF KeepPolling
  <2>2. age[p] >= Ttl
    BY <1>1, <1>3, Numbers DEF DeviceInv, ClientInv, ClocksAgree
  <2>3. ClientInv(p)'
    BY <1>1, <1>3, <2>1, <2>2, Numbers
       DEF DeviceInv, ClientInv, EntryKept, ClocksAgree, PollFollows, Approved, Expired
  <2> QED
    BY <1>1, <1>2, <2>1, <2>3, CliStep
<1>4. CASE ~(cli[p].elapsed >= Ttl)
  <2>1. PICK sleep \in {Interval, 2 * Interval} : Asleep(p, cli[p].elapsed, sleep)
    BY <1>4 DEF KeepPolling
  <2>2. cli[p].elapsed \in 0..(Ttl + 1) /\ sleep \in 0..(2 * Interval)
    BY Numbers
  <2>3. PICK c \in Login : /\ cli' = [cli EXCEPT ![p] = c] /\ cli'[p] = c /\ c.phase = "asleep"
                           /\ c.elapsed = cli[p].elapsed /\ c.sleep = sleep
    BY <2>1, <2>2, AsleepStep
  <2>4. ClientInv(p)'
    BY <1>1, <2>2, <2>3, Numbers
       DEF DeviceInv, ClientInv, EntryKept, ClocksAgree, PollFollows, Approved, Expired
  <2> QED
    BY <1>1, <1>2, <2>3, <2>4, CliStep
<1> QED
  BY <1>3, <1>4

\* A refusal ends the login, a token grants it.
LEMMA StepFinish ==
    ASSUME DeviceInv, NEW p \in Client, Finish(p)
    PROVE  DeviceInv'
<1>1. UNCHANGED <<auth, age, lag, lost>>
  BY DEF Finish
<1>2. PICK c \in Login : /\ cli' = [cli EXCEPT ![p] = c] /\ cli'[p] = c
                         /\ c.elapsed = cli[p].elapsed
                         /\ \/ cli[p].phase = "refused" /\ c.phase = "expired"
                            \/ cli[p].phase = "token" /\ c.phase = "granted"
  <2>1. "expired" \in Phase /\ "granted" \in Phase
    BY DEF Phase, Ended
  <2> QED
    BY <2>1, GotoStep DEF Finish
<1>3. ClientInv(p)'
  BY <1>1, <1>2, Numbers
     DEF DeviceInv, ClientInv, EntryKept, ClocksAgree, PollFollows, Approved, Expired
<1>4. lost' \in 0..MaxLost
  BY <1>1 DEF DeviceInv, TypeOK
<1> QED
  BY <1>1, <1>2, <1>3, <1>4, CliStep

\* A login that lost a message promises nothing.
LEMMA StepLose ==
    ASSUME DeviceInv, NEW p \in Client, Lose(p)
    PROVE  DeviceInv'
<1>1. /\ cli[p].phase # "idle" /\ cli[p].phase # "requested"
      /\ UNCHANGED <<auth, age, lag>> /\ lost < MaxLost /\ lost' = lost + 1
  BY DEF Lose
<1>2. PICK c \in Login : /\ cli' = [cli EXCEPT ![p] = c] /\ cli'[p] = c
                         /\ c.phase = "cutOff" /\ c.elapsed = cli[p].elapsed
  <2>1. "cutOff" \in Phase
    BY DEF Phase, Ended
  <2> QED
    BY <2>1, GotoStep DEF Lose
<1>3. ClientInv(p)'
  BY <1>1, <1>2
     DEF DeviceInv, ClientInv, EntryKept, ClocksAgree, PollFollows, Approved, Expired
<1>4. lost' \in 0..MaxLost
  BY <1>1, DeviceAssumption DEF DeviceInv, TypeOK
<1> QED
  BY <1>1, <1>2, <1>3, <1>4, CliStep

\* A tick: what is due falls behind by it, and lag counts that.
LEMMA StepTick ==
    ASSUME DeviceInv, Tick
    PROVE  DeviceInv'
<1>1. /\ lag \in 0..MaxLag /\ MaxLag \in Nat /\ Ttl \in Nat /\ Interval \in Nat
      /\ age \in [Client -> 0..(Ttl + 1)] /\ cli \in [Client -> Login]
  BY DeviceAssumption DEF DeviceInv, TypeOK
<1>2. /\ lag' \in 0..MaxLag /\ lag' >= lag
      /\ \A p \in Client : Due(p) => lag' = lag + 1
  <2> DEFINE late == \E p \in Client : Due(p)
  <2>1. (late => lag < MaxLag) /\ lag' = IF late THEN lag + 1 ELSE lag
    BY DEF Tick
  <2>2. \A p \in Client : Due(p) => late
    OBVIOUS
  <2> HIDE DEF late
  <2>3. lag' \in 0..MaxLag /\ lag' >= lag /\ (late => lag' = lag + 1)
    BY <1>1, <2>1
  <2> QED
    BY <2>2, <2>3
<1>3. UNCHANGED <<auth, lost>>
  BY DEF Tick
<1>4. ASSUME NEW p \in Client
      PROVE  /\ age'[p] \in 0..(Ttl + 1) /\ age'[p] >= age[p] /\ age'[p] <= age[p] + 1
             /\ age[p] <= Ttl => age'[p] = age[p] + 1
             /\ cli'[p] \in Login /\ cli'[p].phase = cli[p].phase
             /\ cli'[p].elapsed \in {cli[p].elapsed, UpTo(cli[p].elapsed, Ttl + 1)}
             /\ cli'[p].elapsed >= cli[p].elapsed
             /\ cli[p].phase = "asleep" =>
                    cli'[p].sleep = IF cli[p].sleep > 0 THEN cli[p].sleep - 1 ELSE 0
  <2>1. age'[p] = UpTo(age[p], Ttl + 1) /\ age[p] \in 0..(Ttl + 1)
    BY <1>1 DEF Tick
  <2>2. age'[p] \in 0..(Ttl + 1) /\ age'[p] >= age[p] /\ age'[p] <= age[p] + 1
        /\ (age[p] <= Ttl => age'[p] = age[p] + 1)
    BY <1>1, <2>1 DEF UpTo
  <2> DEFINE c == [cli[p] EXCEPT !.elapsed = UpTo(@, Ttl + 1),
                                 !.sleep = IF @ > 0 THEN @ - 1 ELSE 0]
             still == cli[p].phase \in {"idle", "requested"} \union Ended
  <2>3. cli'[p] = IF still THEN cli[p] ELSE c
    BY DEF Tick
  <2>4. /\ cli[p] \in Login /\ cli[p].elapsed \in 0..(Ttl + 1) /\ cli[p].sleep \in 0..(2 * Interval)
        /\ cli[p].phase \in Phase
    BY <1>1 DEF Login
  <2>5. UpTo(cli[p].elapsed, Ttl + 1) \in 0..(Ttl + 1) /\ UpTo(cli[p].elapsed, Ttl + 1) >= cli[p].elapsed
    BY <1>1, <2>4 DEF UpTo
  <2>6. (IF cli[p].sleep > 0 THEN cli[p].sleep - 1 ELSE 0) \in 0..(2 * Interval)
    BY <1>1, <2>4
  <2>7. /\ c \in Login /\ c.phase = cli[p].phase /\ c.elapsed = UpTo(cli[p].elapsed, Ttl + 1)
        /\ c.sleep = IF cli[p].sleep > 0 THEN cli[p].sleep - 1 ELSE 0
    BY <2>4, <2>5, <2>6 DEF Login
  <2>8. cli[p].phase = "asleep" => ~still
    BY DEF Ended
  <2>9. cli[p].elapsed >= cli[p].elapsed
    BY <1>1, <2>4
  <2> HIDE DEF c, still
  <2> QED
    BY <2>2, <2>3, <2>4, <2>5, <2>7, <2>8, <2>9
<1>5. TypeOK'
  <2>1. DOMAIN age' = Client /\ DOMAIN cli' = Client
        /\ age' = [q \in Client |-> age'[q]] /\ cli' = [q \in Client |-> cli'[q]]
    BY DEF Tick
  <2> QED
    BY <1>2, <1>3, <1>4, <2>1 DEF DeviceInv, TypeOK
<1>6. ASSUME NEW p \in Client PROVE ClientInv(p)'
  <2>1. EntryKept(p)'
    BY <1>3, <1>4, Numbers DEF DeviceInv, ClientInv, EntryKept, Expired
  <2>2. ClocksAgree(p)'
    BY <1>4, Numbers DEF DeviceInv, ClientInv, ClocksAgree, UpTo
  <2>3. PollFollows(p)'
    <3>1. lag' \in Nat /\ lag' >= lag /\ (Due(p) => lag' = lag + 1)
      BY <1>1, <1>2
    <3>2. Approved(p)' <=> Approved(p)
      BY <1>3 DEF Approved
    <3>3. CASE cli[p].phase \in {"requested", "pending", "slowDown"}
      <4>1. Due(p)
        BY <3>3 DEF Due
      <4> QED
        BY <1>3, <1>4, <3>1, <3>2, <3>3, <4>1, Numbers DEF DeviceInv, ClientInv, PollFollows
    <3>4. CASE cli[p].phase = "polling"
      <4>1. Due(p)
        BY <3>4 DEF Due
      <4> QED
        BY <1>3, <1>4, <3>1, <3>2, <3>4, <4>1, Numbers DEF DeviceInv, ClientInv, PollFollows
    <3>5. CASE cli[p].phase = "asleep"
      <4>1. cli[p].sleep = 0 => Due(p)
        BY <3>5 DEF Due
      <4> QED
        BY <1>3, <1>4, <3>1, <3>2, <3>5, <4>1, Numbers DEF DeviceInv, ClientInv, PollFollows
    <3>6. CASE cli[p].phase \in {"refused", "expired", "timedOut"}
      BY <1>3, <1>4, <3>1, <3>6, Numbers DEF DeviceInv, ClientInv, PollFollows
    <3> QED
      BY <1>4, <3>3, <3>4, <3>5, <3>6 DEF PollFollows
  <2> QED
    BY <2>1, <2>2, <2>3 DEF ClientInv
<1> QED
  BY <1>5, <1>6 DEF DeviceInv

\* A restart takes every entry away and notes which.
LEMMA StepRestart ==
    ASSUME DeviceInv, Restart
    PROVE  DeviceInv'
<1>1. lost < MaxLost /\ lost' = lost + 1 /\ UNCHANGED <<age, cli, lag>>
  BY DEF Restart
<1>2. lost' \in 0..MaxLost
  BY <1>1, DeviceAssumption DEF DeviceInv, TypeOK
<1>3. ASSUME NEW p \in Client
      PROVE  /\ auth'[p] \in Auth /\ ~auth'[p].present
             /\ auth'[p].approvedAt = auth[p].approvedAt
             /\ auth'[p].forgotten <=> auth[p].forgotten \/ auth[p].present
  <2>1. auth[p] \in Auth
    BY DEF DeviceInv, TypeOK
  <2> QED
    BY <2>1 DEF Restart, Auth
<1>4. TypeOK'
  <2>1. auth' = [p \in Client |-> auth'[p]]
    BY DEF Restart
  <2> QED
    BY <1>1, <1>2, <1>3, <2>1 DEF DeviceInv, TypeOK
<1>5. ASSUME NEW p \in Client PROVE ClientInv(p)'
  BY <1>1, <1>3 DEF DeviceInv, ClientInv, EntryKept, ClocksAgree, PollFollows, Approved, Expired
<1> QED
  BY <1>4, <1>5 DEF DeviceInv

\* The invariant is inductive for the device login.
LEMMA DeviceNext == DeviceInv /\ [Next]_vars => DeviceInv'
<1> SUFFICES ASSUME DeviceInv, [Next]_vars PROVE DeviceInv'
  OBVIOUS
<1>1. CASE UNCHANGED vars
  BY <1>1 DEF vars, DeviceInv, TypeOK, ClientInv, EntryKept, ClocksAgree, PollFollows, Approved, Expired
<1> QED
  BY <1>1, StepDeviceAuth, StepActivate, StepStarted, StepPoll, StepToken, StepKeepPolling,
     StepFinish, StepLose, StepRestart, StepTick DEF Next, Step

-----------------------------------------------------------------------------
(***************************************************************************)
(* The login through the browser.                                          *)
(***************************************************************************)
MainPhase == {"idle", "started", "waiting", "joining", "exchanging", "dropping", "waking"}
                \union MainEnded

ThreadPhase == {"none", "listening", "shutDown", "responding", "ended"}

Request == [kind : {"code", "error", "stray", "noUrl", "wake"}, state : Client \union {Nobody}]

Sent(p) == {NothingSent, SentError, SentCode(p)}

Code == [issued : BOOLEAN, stored : BOOLEAN, age : 0..(CodeTtl + 1), forgotten : BOOLEAN]

WebTypes ==
    /\ main \in [Client -> MainPhase]
    /\ thread \in [Client -> ThreadPhase]
    /\ inbox \in [Client -> Seq(Request)]
    /\ chan \in [Client -> UNION {Sent(p) : p \in Client}]
    /\ code \in [Client -> Code]
    /\ tokens \in [Client -> Client \union {Nobody}]

\* A redirect carries a code that the issuer made.
IssuedOnly(p) ==
    \A i \in 1..Len(inbox[p]) :
        LET request == inbox[p][i] IN
        request.kind = "code" => request.state \in Client /\ code[request.state].issued

\* Only the thread sends, once, and nothing but an error or the login's own code.
ChanFollows(p) ==
    /\ chan[p] \in Sent(p)
    /\ chan[p] = SentCode(p) => code[p].issued
    /\ thread[p] = "listening" \/ main[p] = "idle" => chan[p] = NothingSent
    /\ main[p] = "idle" => thread[p] = "none"
    /\ main[p] = "joining" => chan[p] # NothingSent
    /\ main[p] = "exchanging" => chan[p] = SentCode(p)

\* The issuer keeps a code for its lifetime, until its own login has used it or
\* a restart takes it away.
CodeKept(p) ==
    code[p].issued /\ ~code[p].stored /\ code[p].age <= CodeTtl /\ ~code[p].forgotten
        => main[p] \in MainEnded

OwnTokens(p) ==
    main[p] = "granted" => tokens[p] = p \/ code[p].age > CodeTtl \/ code[p].forgotten

WebClient(p) == IssuedOnly(p) /\ ChanFollows(p) /\ CodeKept(p) /\ OwnTokens(p)

WebInv == WebTypes /\ \A p \in Client : WebClient(p)

\* What other steps than those of p may do to its code: prune it when its
\* lifetime is over, and forget it.
CodeFollows(p) ==
    /\ code[p].issued => code'[p].issued
    /\ code'[p].age >= code[p].age
    /\ code[p].forgotten => code'[p].forgotten
    /\ code'[p].issued /\ ~code'[p].stored /\ code'[p].age <= CodeTtl /\ ~code'[p].forgotten
          => code[p].issued /\ ~code[p].stored /\ code[p].age <= CodeTtl /\ ~code[p].forgotten

-----------------------------------------------------------------------------
\* No login has begun, and no code is made.
LEMMA InitWeb == LoginInit => WebInv
<1> SUFFICES ASSUME LoginInit PROVE WebInv
  OBVIOUS
<1>1. WebTypes
  <2>1. 0 \in 0..(CodeTtl + 1)
    BY LoginAssumption
  <2>2. code \in [Client -> Code]
    BY <2>1 DEF LoginInit, Code, NoCode
  <2> QED
    BY <2>2 DEF LoginInit, WebTypes, Sent, MainPhase, ThreadPhase
<1>2. ASSUME NEW p \in Client PROVE WebClient(p)
  <2>1. IssuedOnly(p)
    BY DEF LoginInit, IssuedOnly
  <2>2. ChanFollows(p)
    BY DEF LoginInit, ChanFollows, Sent, NothingSent, SentCode
  <2> QED
    BY <2>1, <2>2 DEF LoginInit, WebClient, CodeKept, OwnTokens, NoCode
<1> QED
  BY <1>1, <1>2 DEF WebInv

\* A step of one login, with what it must show of that login.
LEMMA WebStep ==
    ASSUME WebInv, NEW p \in Client, WebTypes', ChanFollows(p)', CodeKept(p)', OwnTokens(p)',
           code[p].issued => code'[p].issued,
           inbox'[p] = inbox[p] \/ IssuedOnly(p)',
           \A q \in Client \ {p} :
              /\ main'[q] = main[q] /\ thread'[q] = thread[q] /\ inbox'[q] = inbox[q]
              /\ chan'[q] = chan[q] /\ tokens'[q] = tokens[q] /\ CodeFollows(q)
    PROVE  WebInv'
<1>1. \A q \in Client : code[q].issued => code'[q].issued
  BY DEF CodeFollows
<1>2. ASSUME NEW q \in Client, inbox'[q] = inbox[q] PROVE IssuedOnly(q)'
  BY <1>1, <1>2 DEF WebInv, WebClient, IssuedOnly
<1>3. ASSUME NEW q \in Client \ {p} PROVE ChanFollows(q)' /\ CodeKept(q)' /\ OwnTokens(q)'
  <2>1. WebClient(q) /\ CodeFollows(q)
    BY DEF WebInv
  <2>2. ChanFollows(q)'
    BY <1>1, <2>1 DEF WebClient, ChanFollows
  <2>3. CodeKept(q)'
    BY <2>1 DEF WebClient, CodeKept, CodeFollows
  <2>4. code[q].age \in Nat /\ code'[q].age \in Nat /\ CodeTtl \in Nat
    <3>1. code[q] \in Code /\ code'[q] \in Code
      BY DEF WebInv, WebTypes
    <3> QED
      BY <3>1, LoginAssumption DEF Code
  <2>5. code[q].age > CodeTtl => code'[q].age > CodeTtl
    BY <2>1, <2>4 DEF CodeFollows
  <2>6. OwnTokens(q)'
    BY <2>1, <2>5 DEF WebClient, OwnTokens, CodeFollows
  <2> QED
    BY <2>2, <2>3, <2>6
<1>4. IssuedOnly(p)'
  BY <1>2
<1> QED
  BY <1>2, <1>3, <1>4 DEF WebInv, WebClient

\* A step of the threads of one login that leaves requests and codes alone.
LEMMA LocalStep ==
    ASSUME WebInv, NEW p \in Client, NEW m \in MainPhase, NEW t \in ThreadPhase, NEW c \in Sent(p),
           main' = [main EXCEPT ![p] = m], thread' = [thread EXCEPT ![p] = t],
           chan' = [chan EXCEPT ![p] = c],
           UNCHANGED <<inbox, code, tokens>>,
           c = SentCode(p) => code[p].issued,
           t = "listening" \/ m = "idle" => c = NothingSent,
           m = "idle" => t = "none",
           m = "joining" => c # NothingSent,
           m = "exchanging" => c = SentCode(p),
           m = "granted" => main[p] = "granted",
           main[p] \in MainEnded => m \in MainEnded
    PROVE  WebInv'
<1>1. WebTypes'
  BY DEF WebInv, WebTypes
<1>2. main'[p] = m /\ thread'[p] = t /\ chan'[p] = c
  BY DEF WebInv, WebTypes
<1>3. \A q \in Client \ {p} : main'[q] = main[q] /\ thread'[q] = thread[q] /\ chan'[q] = chan[q]
  BY DEF WebInv, WebTypes
<1>4. ChanFollows(p)'
  BY <1>2 DEF ChanFollows
<1>5. WebClient(p)
  BY DEF WebInv
<1>6. CodeKept(p)' /\ OwnTokens(p)'
  BY <1>2, <1>5 DEF WebClient, CodeKept, OwnTokens
<1>7. \A q \in Client : CodeFollows(q)
  BY DEF WebInv, WebTypes, Code, CodeFollows
<1> QED
  BY <1>1, <1>3, <1>4, <1>6, <1>7, WebStep

\* Each side of the login is bounded by its states, and is one of them.
LEMMA WebValues ==
    ASSUME WebInv, NEW p \in Client
    PROVE  /\ main[p] \in MainPhase /\ thread[p] \in ThreadPhase /\ chan[p] \in Sent(p)
           /\ main = [main EXCEPT ![p] = main[p]]
           /\ thread = [thread EXCEPT ![p] = thread[p]]
           /\ chan = [chan EXCEPT ![p] = chan[p]]
           /\ WebClient(p)
<1>1. WebClient(p)
  BY DEF WebInv
<1>2. main \in [Client -> MainPhase] /\ thread \in [Client -> ThreadPhase]
  BY DEF WebInv, WebTypes
<1>3. chan = [q \in Client |-> chan[q]]
  BY DEF WebInv, WebTypes
<1>4. chan[p] \in Sent(p)
  BY <1>1 DEF WebClient, ChanFollows
<1> QED
  BY <1>1, <1>2, <1>3, <1>4

\* The port is there from the start, and nothing is sent yet.
LEMMA StepStartServer ==
    ASSUME WebInv, NEW p \in Client, StartServer(p)
    PROVE  WebInv'
<1>1. /\ main[p] = "idle" /\ UNCHANGED <<inbox, code, tokens>>
      /\ chan' = [chan EXCEPT ![p] = NothingSent]
  BY WebValues DEF StartServer, WebClient, ChanFollows
<1>2. /\ NothingSent # SentCode(p) /\ NothingSent \in Sent(p)
      /\ {"listening"} \subseteq ThreadPhase /\ {"started", "failed"} \subseteq MainPhase
  BY DEF NothingSent, SentCode, Sent, ThreadPhase, MainPhase, MainEnded
<1>3. /\ "idle" \notin MainEnded
  BY DEF MainEnded
<1>4. CASE main' = [main EXCEPT ![p] = "started"] /\ thread' = [thread EXCEPT ![p] = "listening"]
  BY <1>1, <1>2, <1>3, <1>4, LocalStep
<1>5. CASE main' = [main EXCEPT ![p] = "failed"] /\ thread' = thread
  <2>1. thread' = [thread EXCEPT ![p] = thread[p]] /\ thread[p] \in ThreadPhase
    BY <1>5, WebValues
  <2>2. "failed" \in MainEnded
    BY DEF MainEnded
  <2> QED
    BY <1>1, <1>2, <1>5, <2>1, <2>2, LocalStep
<1> QED
  BY <1>4, <1>5 DEF StartServer, GoMain

\* A step of the main thread alone.
LEMMA MainOnly ==
    ASSUME WebInv, NEW p \in Client, NEW m \in MainPhase \ {"idle", "granted"}, GoMain(p, m),
           UNCHANGED <<thread, inbox, chan, code, tokens>>,
           m = "joining" => chan[p] # NothingSent,
           m = "exchanging" => chan[p] = SentCode(p),
           main[p] \notin MainEnded
    PROVE  WebInv'
<1>1. /\ main' = [main EXCEPT ![p] = m] /\ thread' = [thread EXCEPT ![p] = thread[p]]
      /\ chan' = [chan EXCEPT ![p] = chan[p]]
      /\ thread[p] \in ThreadPhase /\ chan[p] \in Sent(p) /\ m \in MainPhase
      /\ m # "idle" /\ m # "granted"
  BY WebValues DEF GoMain
<1>2. /\ chan[p] = SentCode(p) => code[p].issued
      /\ thread[p] = "listening" => chan[p] = NothingSent
  BY WebValues DEF WebClient, ChanFollows
<1> QED
  BY <1>1, <1>2, LocalStep

\* The URL is built, or the login given up.
LEMMA StepBuildUrl ==
    ASSUME WebInv, NEW p \in Client, BuildUrl(p)
    PROVE  WebInv'
<1>1. {"waiting", "dropping"} \subseteq MainPhase \ {"idle", "granted"}
  BY DEF MainPhase
<1>2. main[p] \notin MainEnded /\ UNCHANGED <<thread, inbox, chan, code, tokens>>
  BY DEF BuildUrl, MainEnded
<1> QED
  BY <1>1, <1>2, MainOnly DEF BuildUrl

\* What was sent is received, or the thread found gone.
LEMMA StepReceive ==
    ASSUME WebInv, NEW p \in Client, Receive(p)
    PROVE  WebInv'
<1>1. {"joining", "dropping"} \subseteq MainPhase \ {"idle", "granted"}
  BY DEF MainPhase
<1>2. main[p] \notin MainEnded /\ UNCHANGED <<thread, inbox, chan, code, tokens>>
  BY DEF Receive, MainEnded
<1> QED
  BY <1>1, <1>2, MainOnly DEF Receive

\* An answer that is no error is the code of this login.
LEMMA StepJoin ==
    ASSUME WebInv, NEW p \in Client, Join(p)
    PROVE  WebInv'
<1>1. {"failed", "exchanging"} \subseteq MainPhase \ {"idle", "granted"}
  BY DEF MainPhase, MainEnded
<1>2. /\ main[p] \notin MainEnded /\ UNCHANGED <<thread, inbox, chan, code, tokens>>
      /\ main[p] = "joining"
  BY DEF Join, MainEnded
<1>3. chan[p] # SentError => chan[p] = SentCode(p)
  BY <1>2, WebValues DEF WebClient, ChanFollows, Sent
<1> QED
  BY <1>1, <1>2, <1>3, MainOnly DEF Join

\* A thread that is told to shut down does not listen any more.
LEMMA StepDrop ==
    ASSUME WebInv, NEW p \in Client, Drop(p)
    PROVE  WebInv'
<1> DEFINE t == IF thread[p] = "listening" THEN "shutDown" ELSE thread[p]
<1>1. /\ main[p] = "dropping" /\ main' = [main EXCEPT ![p] = "waking"]
      /\ thread' = [thread EXCEPT ![p] = t]
      /\ chan' = [chan EXCEPT ![p] = chan[p]] /\ UNCHANGED <<inbox, code, tokens>>
  BY WebValues DEF Drop, GoMain
<1>2. t \in ThreadPhase /\ t # "listening" /\ "waking" \in MainPhase /\ "dropping" \notin MainEnded
  BY WebValues DEF ThreadPhase, MainPhase, MainEnded
<1>3. chan[p] \in Sent(p) /\ (chan[p] = SentCode(p) => code[p].issued)
  BY WebValues DEF WebClient, ChanFollows
<1> HIDE DEF t
<1> QED
  BY <1>1, <1>2, <1>3, LocalStep

\* Whether the thread responds, or its socket fails, it ends.
LEMMA ThreadEnds ==
    ASSUME WebInv, NEW p \in Client, main[p] # "idle", thread' = [thread EXCEPT ![p] = "ended"],
           UNCHANGED <<main, inbox, chan, code, tokens>>
    PROVE  WebInv'
<1>1. /\ main' = [main EXCEPT ![p] = main[p]] /\ chan' = [chan EXCEPT ![p] = chan[p]]
      /\ main[p] \in MainPhase /\ chan[p] \in Sent(p) /\ "ended" \in ThreadPhase
  BY WebValues DEF ThreadPhase
<1>2. /\ chan[p] = SentCode(p) => code[p].issued
      /\ main[p] = "joining" => chan[p] # NothingSent
      /\ main[p] = "exchanging" => chan[p] = SentCode(p)
  BY WebValues DEF WebClient, ChanFollows
<1> QED
  BY <1>1, <1>2, LocalStep

\* A step that changes what is at the socket of one server.
LEMMA InboxStep ==
    ASSUME WebInv, NEW p \in Client, NEW requests \in Seq(Request),
           inbox' = [inbox EXCEPT ![p] = requests],
           \A i \in 1..Len(requests) : requests[i].kind = "code" =>
              requests[i].state \in Client /\ code[requests[i].state].issued,
           NEW m \in MainPhase, NEW t \in ThreadPhase, NEW c \in Sent(p),
           main' = [main EXCEPT ![p] = m], thread' = [thread EXCEPT ![p] = t],
           chan' = [chan EXCEPT ![p] = c],
           UNCHANGED <<code, tokens>>,
           c = SentCode(p) => code[p].issued,
           t = "listening" \/ m = "idle" => c = NothingSent,
           m = "idle" => t = "none",
           m = "joining" => c # NothingSent,
           m = "exchanging" => c = SentCode(p),
           m = "granted" => main[p] = "granted",
           main[p] \in MainEnded => m \in MainEnded
    PROVE  WebInv'
<1>1. WebTypes'
  BY DEF WebInv, WebTypes
<1>2. main'[p] = m /\ thread'[p] = t /\ chan'[p] = c /\ inbox'[p] = requests
  BY DEF WebInv, WebTypes
<1>3. \A q \in Client \ {p} : main'[q] = main[q] /\ thread'[q] = thread[q] /\ chan'[q] = chan[q]
                              /\ inbox'[q] = inbox[q]
  BY DEF WebInv, WebTypes
<1>4. ChanFollows(p)'
  BY <1>2 DEF ChanFollows
<1>5. WebClient(p)
  BY DEF WebInv
<1>6. CodeKept(p)' /\ OwnTokens(p)'
  BY <1>2, <1>5 DEF WebClient, CodeKept, OwnTokens
<1>7. \A q \in Client : CodeFollows(q)
  BY DEF WebInv, WebTypes, Code, CodeFollows
<1>8. IssuedOnly(p)'
  BY <1>2 DEF IssuedOnly
<1> QED
  BY <1>1, <1>3, <1>4, <1>6, <1>7, <1>8, WebStep

\* What is added to the requests of one server.
LEMMA Appended ==
    ASSUME WebInv, NEW p \in Client, NEW r \in Request,
           r.kind = "code" => r.state \in Client /\ code[r.state].issued
    PROVE  LET s == Append(inbox[p], r) IN
           /\ s \in Seq(Request)
           /\ \A i \in 1..Len(s) : s[i].kind = "code" =>
                 s[i].state \in Client /\ code[s[i].state].issued
<1>1. inbox[p] \in Seq(Request)
  BY DEF WebInv, WebTypes
<1>2. \A i \in 1..Len(inbox[p]) : inbox[p][i].kind = "code" =>
         inbox[p][i].state \in Client /\ code[inbox[p][i].state].issued
  BY DEF WebInv, WebClient, IssuedOnly
<1>3. \A i \in 1..Len(Append(inbox[p], r)) :
         \/ i \in 1..Len(inbox[p]) /\ Append(inbox[p], r)[i] = inbox[p][i]
         \/ Append(inbox[p], r)[i] = r
  BY <1>1
<1> QED
  BY <1>1, <1>2, <1>3

\* A redirect carries a code of the issuer, if of another login perhaps.
LEMMA StepArrive ==
    ASSUME WebInv, NEW p \in Client, NEW r \in Request, Arrive(p, r),
           r.kind = "code" => r.state \in Client
    PROVE  WebInv'
<1> DEFINE s == Append(inbox[p], r)
<1>1. r.kind = "code" => r.state \in Client /\ code[r.state].issued
  BY DEF Arrive
<1>2. /\ s \in Seq(Request)
      /\ \A i \in 1..Len(s) : s[i].kind = "code" =>
            s[i].state \in Client /\ code[s[i].state].issued
  BY <1>1, Appended
<1>3. /\ inbox' = [inbox EXCEPT ![p] = s]
      /\ main' = [main EXCEPT ![p] = main[p]] /\ thread' = [thread EXCEPT ![p] = thread[p]]
      /\ chan' = [chan EXCEPT ![p] = chan[p]] /\ UNCHANGED <<code, tokens>>
  BY WebValues DEF Arrive
<1>4. ChanFollows(p) /\ main[p] \in MainPhase /\ thread[p] \in ThreadPhase /\ chan[p] \in Sent(p)
  BY WebValues DEF WebClient
<1> HIDE DEF s
<1> QED
  BY <1>2, <1>3, <1>4, InboxStep DEF ChanFollows

\* The request of Drop is no redirect.
LEMMA StepConnect ==
    ASSUME WebInv, NEW p \in Client, Connect(p)
    PROVE  WebInv'
<1>1. /\ main[p] = "waking" /\ main' = [main EXCEPT ![p] = "failed"]
      /\ "failed" \in MainPhase /\ "failed" \in MainEnded
      /\ thread' = [thread EXCEPT ![p] = thread[p]] /\ chan' = [chan EXCEPT ![p] = chan[p]]
      /\ UNCHANGED <<code, tokens>>
  BY WebValues DEF Connect, GoMain, MainPhase, MainEnded
<1>2. ChanFollows(p) /\ thread[p] \in ThreadPhase /\ chan[p] \in Sent(p)
  BY WebValues DEF WebClient
<1>3. PICK s \in {inbox[p], Append(inbox[p], Wake)} : inbox' = [inbox EXCEPT ![p] = s]
  BY DEF Connect
<1>4. Wake \in Request /\ Wake.kind # "code"
  BY DEF Wake, Request
<1>5. /\ s \in Seq(Request)
      /\ \A i \in 1..Len(s) : s[i].kind = "code" =>
            s[i].state \in Client /\ code[s[i].state].issued
  <2>1. CASE s = inbox[p]
    BY <2>1, WebValues DEF WebInv, WebTypes, WebClient, IssuedOnly
  <2>2. CASE s = Append(inbox[p], Wake)
    BY <1>4, <2>2, Appended
  <2> QED
    BY <2>1, <2>2
<1> QED
  BY <1>1, <1>2, <1>3, <1>5, InboxStep DEF ChanFollows

\* The login is abandoned, and the thread is not woken.
LEMMA StepConnectFails ==
    ASSUME WebInv, NEW p \in Client, ConnectFails(p)
    PROVE  WebInv'
<1>1. "abandoned" \in MainPhase \ {"idle", "granted"}
  BY DEF MainPhase, MainEnded
<1>2. /\ main[p] \notin MainEnded /\ GoMain(p, "abandoned")
      /\ UNCHANGED <<thread, inbox, chan, code, tokens>>
  BY DEF ConnectFails, MainEnded
<1> QED
  BY <1>1, <1>2, MainOnly

\* The thread sends the code of its own login only, which its redirect carried.
LEMMA StepServe ==
    ASSUME WebInv, NEW p \in Client, Serve(p)
    PROVE  WebInv'
<1> DEFINE s == Tail(inbox[p])
           r == Head(inbox[p])
<1>1. inbox[p] \in Seq(Request) /\ inbox[p] # <<>>
  BY DEF WebInv, WebTypes, Serve
<1>2. \A i \in 1..Len(inbox[p]) : inbox[p][i].kind = "code" =>
         inbox[p][i].state \in Client /\ code[inbox[p][i].state].issued
  BY DEF WebInv, WebClient, IssuedOnly
<1>3. /\ s \in Seq(Request)
      /\ \A i \in 1..Len(s) : i + 1 \in 1..Len(inbox[p]) /\ s[i] = inbox[p][i + 1]
      /\ 1 \in 1..Len(inbox[p]) /\ r = inbox[p][1]
  BY <1>1
<1>4. /\ \A i \in 1..Len(s) : s[i].kind = "code" =>
            s[i].state \in Client /\ code[s[i].state].issued
      /\ r.kind = "code" => code[r.state].issued
  BY <1>2, <1>3
<1>5. /\ inbox' = [inbox EXCEPT ![p] = s]
      /\ main' = [main EXCEPT ![p] = main[p]] /\ UNCHANGED <<code, tokens>>
  BY WebValues DEF Serve
<1>6. ChanFollows(p) /\ main[p] \in MainPhase /\ thread[p] \in ThreadPhase /\ chan[p] \in Sent(p)
  BY WebValues DEF WebClient
<1>7. chan' = chan => chan' = [chan EXCEPT ![p] = chan[p]]
  BY WebValues
<1>8. thread' = thread => thread' = [thread EXCEPT ![p] = thread[p]]
  BY WebValues
<1>9. "ended" \in ThreadPhase /\ "responding" \in ThreadPhase
  BY DEF ThreadPhase
<1> HIDE DEF s
<1>10. CASE thread[p] = "shutDown" /\ thread' = [thread EXCEPT ![p] = "ended"] /\ UNCHANGED chan
  BY <1>3, <1>4, <1>5, <1>6, <1>7, <1>9, <1>10, InboxStep DEF ChanFollows
<1>11. CASE UNCHANGED <<thread, chan>>
  BY <1>3, <1>4, <1>5, <1>6, <1>7, <1>8, <1>11, InboxStep DEF ChanFollows
<1>12. CASE /\ thread[p] = "listening" /\ thread' = [thread EXCEPT ![p] = "responding"]
            /\ chan' = [chan EXCEPT ![p] = AnswerTo(p, r)]
  <2> DEFINE c == AnswerTo(p, r)
  <2>1. c \in Sent(p) /\ c # NothingSent /\ (c = SentCode(p) => code[p].issued)
    BY <1>4 DEF AnswerTo, Sent, SentCode, SentError, NothingSent
  <2>2. main[p] # "idle" /\ main[p] # "joining" /\ main[p] # "exchanging"
    BY <1>6, <1>12 DEF ChanFollows, SentCode, NothingSent
  <2>3. chan' = [chan EXCEPT ![p] = c]
    BY <1>12
  <2> HIDE DEF c
  <2> QED
    BY <1>3, <1>4, <1>5, <1>6, <1>9, <1>12, <2>1, <2>2, <2>3, InboxStep
<1> QED
  BY <1>10, <1>11, <1>12 DEF Serve

\* pruneAuthCodes takes away only what is past its lifetime.
LEMMA PrunedKeeps ==
    ASSUME WebInv
    PROVE  /\ Pruned(code) \in [Client -> Code]
           /\ \A q \in Client : /\ Pruned(code)[q].issued = code[q].issued
                                /\ Pruned(code)[q].age = code[q].age
                                /\ Pruned(code)[q].forgotten = code[q].forgotten
                                /\ Pruned(code)[q].stored <=> code[q].stored /\ code[q].age <= CodeTtl
<1>1. code \in [Client -> Code]
  BY DEF WebInv, WebTypes
<1> QED
  BY <1>1 DEF Pruned, Code

\* A step that changes the code of one login and prunes the others.
LEMMA CodeStep ==
    ASSUME WebInv, NEW p \in Client, NEW e \in Code, NEW m \in MainPhase, NEW u \in Client \union {Nobody},
           code' = [Pruned(code) EXCEPT ![p] = e],
           main' = [main EXCEPT ![p] = m], tokens' = [tokens EXCEPT ![p] = u],
           UNCHANGED <<thread, inbox, chan>>,
           code[p].issued => e.issued,
           e.issued /\ ~e.stored /\ e.age <= CodeTtl /\ ~e.forgotten => m \in MainEnded,
           m = "granted" => u = p \/ e.age > CodeTtl \/ e.forgotten,
           m = main[p] \/ m \in MainEnded
    PROVE  WebInv'
<1>1. WebTypes'
  BY PrunedKeeps DEF WebInv, WebTypes
<1>2. main'[p] = m /\ tokens'[p] = u /\ code'[p] = e /\ thread'[p] = thread[p] /\ chan'[p] = chan[p]
  BY PrunedKeeps DEF WebInv, WebTypes
<1>3. \A q \in Client \ {p} : main'[q] = main[q] /\ tokens'[q] = tokens[q]
                              /\ code'[q] = Pruned(code)[q]
  BY PrunedKeeps DEF WebInv, WebTypes
<1>4. ASSUME NEW q \in Client \ {p} PROVE CodeFollows(q)
  <2>1. code[q].age \in Nat /\ code[q].stored \in BOOLEAN
    <3>1. code[q] \in Code
      BY DEF WebInv, WebTypes
    <3> QED
      BY <3>1, LoginAssumption DEF Code
  <2> QED
    BY <1>3, <2>1, PrunedKeeps DEF CodeFollows
<1>5. ChanFollows(p)'
  <2>1. ChanFollows(p)
    BY DEF WebInv, WebClient
  <2> QED
    BY <1>2, <2>1 DEF ChanFollows, MainEnded
<1>6. CodeKept(p)' /\ OwnTokens(p)'
  BY <1>2 DEF CodeKept, OwnTokens
<1> QED
  BY <1>1, <1>2, <1>3, <1>4, <1>5, <1>6, WebStep

\* A code is made for a login that has none.
LEMMA StepAuthorize ==
    ASSUME WebInv, NEW p \in Client, Authorize(p)
    PROVE  WebInv'
<1> DEFINE e == NewCode
<1>1. e \in Code /\ e.issued /\ e.stored
  <2>1. NewCode = [issued |-> TRUE, stored |-> TRUE, age |-> 0, forgotten |-> FALSE]
    BY DEF NewCode
  <2>2. 0 \in 0..(CodeTtl + 1)
    BY LoginAssumption
  <2> QED
    BY <2>1, <2>2 DEF Code
<1>2. /\ main[p] = "waiting" /\ main[p] \in MainPhase /\ tokens[p] \in Client \union {Nobody}
      /\ main' = [main EXCEPT ![p] = main[p]] /\ tokens' = [tokens EXCEPT ![p] = tokens[p]]
  BY DEF Authorize, WebInv, WebTypes
<1>3. code' = [Pruned(code) EXCEPT ![p] = e] /\ UNCHANGED <<thread, inbox, chan>>
  BY DEF Authorize
<1> HIDE DEF e
<1> QED
  BY <1>1, <1>2, <1>3, CodeStep

\* The code is that of the login, and is stored unless its lifetime is over.
LEMMA StepExchange ==
    ASSUME WebInv, NEW p \in Client, Exchange(p)
    PROVE  WebInv'
<1> DEFINE e == [Pruned(code)[p] EXCEPT !.stored = FALSE]
           u == IF Pruned(code)[p].stored THEN p ELSE Nobody
<1>1. chan[p].of = p /\ code[p].issued /\ main[p] = "exchanging"
  <2>1. main[p] = "exchanging"
    BY DEF Exchange
  <2>2. chan[p] = SentCode(p) /\ code[p].issued
    BY <2>1, WebValues DEF WebClient, ChanFollows
  <2> QED
    BY <2>1, <2>2 DEF SentCode
<1>2. /\ code' = [Pruned(code) EXCEPT ![p] = e] /\ tokens' = [tokens EXCEPT ![p] = u]
      /\ main' = [main EXCEPT ![p] = "granted"] /\ UNCHANGED <<thread, inbox, chan>>
  BY <1>1 DEF Exchange, GoMain
<1>3. "granted" \in MainPhase /\ "granted" \in MainEnded /\ u \in Client \union {Nobody}
  BY DEF MainPhase, MainEnded
<1>4. code[p].age \in Nat /\ CodeTtl \in Nat /\ code[p] \in Code
  <2>1. code[p] \in Code
    BY DEF WebInv, WebTypes
  <2> QED
    BY <2>1, LoginAssumption DEF Code
<1>5. Pruned(code)[p].stored \/ code[p].age > CodeTtl \/ code[p].forgotten
  <2>1. code[p].age <= CodeTtl => code[p].stored \/ code[p].forgotten
    BY <1>1 DEF WebInv, WebClient, CodeKept, MainEnded
  <2> QED
    BY <1>4, <2>1, PrunedKeeps
<1>6. /\ e \in Code /\ e.issued = code[p].issued /\ e.age = code[p].age
      /\ e.forgotten = code[p].forgotten
  <2>1. Pruned(code)[p] \in Code
    BY PrunedKeeps
  <2>2. /\ e \in Code /\ e.issued = Pruned(code)[p].issued /\ e.age = Pruned(code)[p].age
        /\ e.forgotten = Pruned(code)[p].forgotten
    BY <2>1 DEF Code
  <2> QED
    BY <2>2, PrunedKeeps
<1>7. u = p \/ e.age > CodeTtl \/ e.forgotten
  BY <1>5, <1>6
<1> HIDE DEF e, u
<1> QED
  BY <1>1, <1>2, <1>3, <1>6, <1>7, CodeStep

\* The login that lost the reply has failed, whether its code is used up or not.
LEMMA StepLoseExchange ==
    ASSUME WebInv, NEW p \in Client, LoseExchange(p)
    PROVE  WebInv'
<1> DEFINE e == [Pruned(code)[p] EXCEPT !.stored = FALSE]
<1>1. /\ chan[p].of = p /\ main[p] = "exchanging" /\ GoMain(p, "failed")
      /\ UNCHANGED <<thread, inbox, chan, tokens>>
  <2>1. main[p] = "exchanging" /\ GoMain(p, "failed") /\ UNCHANGED <<thread, inbox, chan, tokens>>
    BY DEF LoseExchange
  <2>2. chan[p] = SentCode(p)
    BY <2>1, WebValues DEF WebClient, ChanFollows
  <2> QED
    BY <2>1, <2>2 DEF SentCode
<1>2. "failed" \in MainPhase \ {"idle", "granted"} /\ main[p] \notin MainEnded /\ "failed" \in MainEnded
  BY <1>1 DEF MainPhase, MainEnded
<1>3. CASE UNCHANGED code
  BY <1>1, <1>2, <1>3, MainOnly
<1>4. CASE code' = [Pruned(code) EXCEPT ![p] = e]
  <2>1. e \in Code /\ e.issued = code[p].issued
    <3>1. Pruned(code)[p] \in Code
      BY PrunedKeeps
    <3>2. e \in Code /\ e.issued = Pruned(code)[p].issued
      BY <3>1 DEF Code
    <3> QED
      BY <3>2, PrunedKeeps
  <2>2. tokens' = [tokens EXCEPT ![p] = tokens[p]] /\ tokens[p] \in Client \union {Nobody}
    BY <1>1 DEF WebInv, WebTypes
  <2>3. main' = [main EXCEPT ![p] = "failed"]
    BY <1>1 DEF GoMain
  <2> HIDE DEF e
  <2> QED
    BY <1>1, <1>2, <1>4, <2>1, <2>2, <2>3, CodeStep
<1> QED
  BY <1>1, <1>3, <1>4 DEF LoseExchange

\* A step that changes no more than the codes, and those as other steps may.
LEMMA AllCodesStep ==
    ASSUME WebInv, UNCHANGED <<main, thread, inbox, chan, tokens>>,
           code' = [p \in Client |-> code'[p]],
           \A p \in Client : code'[p] \in Code /\ CodeFollows(p)
    PROVE  WebInv'
<1>1. WebTypes'
  BY DEF WebInv, WebTypes
<1>2. ASSUME NEW p \in Client PROVE WebInv'
  <2>1. WebClient(p)
    BY DEF WebInv
  <2>2. ChanFollows(p)' /\ CodeKept(p)'
    BY <2>1 DEF WebClient, ChanFollows, CodeKept, CodeFollows
  <2>3. OwnTokens(p)'
    <3>1. code[p].age \in Nat /\ code'[p].age \in Nat /\ CodeTtl \in Nat /\ code'[p].age >= code[p].age
      <4>1. code[p] \in Code /\ code'[p] \in Code
        BY DEF WebInv, WebTypes
      <4> QED
        BY <4>1, LoginAssumption DEF Code, CodeFollows
    <3>2. code[p].forgotten => code'[p].forgotten
      BY DEF CodeFollows
    <3> QED
      BY <2>1, <3>1, <3>2 DEF WebClient, OwnTokens
  <2> QED
    BY <1>1, <2>2, <2>3, WebStep DEF CodeFollows
<1> QED
  BY <1>1, <1>2 DEF WebInv

\* Codes grow older.
LEMMA StepCodesAge ==
    ASSUME WebInv, CodesAge
    PROVE  WebInv'
<1>1. UNCHANGED <<main, thread, inbox, chan, tokens>> /\ code' = [p \in Client |-> code'[p]]
  BY DEF CodesAge
<1>2. ASSUME NEW p \in Client
      PROVE  code'[p] \in Code /\ CodeFollows(p)
  <2>1. code[p] \in Code /\ CodeTtl \in Nat
    BY LoginAssumption DEF WebInv, WebTypes
  <2>2. code[p].age \in 0..(CodeTtl + 1)
    BY <2>1 DEF Code
  <2>3. UpTo(code[p].age, CodeTtl + 1) \in 0..(CodeTtl + 1) /\ UpTo(code[p].age, CodeTtl + 1) >= code[p].age
    BY <2>1, <2>2 DEF UpTo
  <2> DEFINE e == [code[p] EXCEPT !.age = UpTo(@, CodeTtl + 1)]
  <2>4. code'[p] = IF code[p].issued THEN e ELSE code[p]
    BY DEF CodesAge
  <2>5. /\ e \in Code /\ e.issued = code[p].issued /\ e.stored = code[p].stored
        /\ e.age = UpTo(code[p].age, CodeTtl + 1) /\ e.forgotten = code[p].forgotten
    BY <2>1, <2>3 DEF Code
  <2> HIDE DEF e
  <2> QED
    BY <2>1, <2>2, <2>3, <2>4, <2>5 DEF CodeFollows
<1> QED
  BY <1>1, <1>2, AllCodesStep

\* A restart of the issuer forgets the codes that it has stored.
LEMMA StepCodesLost ==
    ASSUME WebInv, CodesLost
    PROVE  WebInv'
<1>1. UNCHANGED <<main, thread, inbox, chan, tokens>> /\ code' = [p \in Client |-> code'[p]]
  BY DEF CodesLost
<1>2. ASSUME NEW p \in Client
      PROVE  code'[p] \in Code /\ CodeFollows(p)
  <2>1. code[p] \in Code /\ CodeTtl \in Nat
    BY LoginAssumption DEF WebInv, WebTypes
  <2>2. code[p].age \in Nat
    BY <2>1 DEF Code
  <2>3. /\ code'[p] \in Code /\ code'[p].issued = code[p].issued /\ code'[p].age = code[p].age
        /\ code'[p].forgotten <=> code[p].forgotten \/ code[p].stored
    BY <2>1 DEF CodesLost, Code
  <2> QED
    BY <2>2, <2>3 DEF CodeFollows
<1> QED
  BY <1>1, <1>2, AllCodesStep

\* The invariant of the login through the browser is inductive.
LEMMA WebNext == WebInv /\ [LoginNext]_loginVars => WebInv'
<1> SUFFICES ASSUME WebInv, [LoginNext]_loginVars PROVE WebInv'
  OBVIOUS
<1>1. CASE UNCHANGED webVars
  <2>1. ASSUME NEW p \in Client PROVE WebClient(p)'
    BY <1>1 DEF webVars, WebInv, WebClient, IssuedOnly, ChanFollows, CodeKept, OwnTokens
  <2> QED
    BY <1>1, <2>1 DEF webVars, WebInv, WebTypes
<1>2. ASSUME NEW p \in Client, ByBrowser(p) PROVE WebInv'
  <2>1. ASSUME NEW q \in Client, Arrive(p, Redirect(q)) PROVE WebInv'
    <3>1. Redirect(q) \in Request /\ Redirect(q).state \in Client
      BY DEF Redirect, Request
    <3> QED
      BY <2>1, <3>1, StepArrive
  <2>2. ASSUME NEW r \in {Denied(p), Stray, NoUrl}, Arrive(p, r) PROVE WebInv'
    <3>1. r \in Request /\ r.kind # "code"
      BY DEF Denied, Stray, NoUrl, Request
    <3> QED
      BY <2>2, <3>1, StepArrive
  <2>3. CASE Respond(p) \/ AcceptFails(p)
    <3>1. /\ thread[p] # "none" /\ thread' = [thread EXCEPT ![p] = "ended"]
          /\ UNCHANGED <<main, inbox, chan, code, tokens>>
      BY <2>3 DEF Respond, AcceptFails
    <3>2. main[p] # "idle"
      BY <3>1, WebValues DEF WebClient, ChanFollows
    <3> QED
      BY <3>1, <3>2, ThreadEnds
  <2> QED
    BY <1>2, <2>1, <2>2, <2>3, StepStartServer, StepBuildUrl, StepReceive, StepJoin, StepExchange,
       StepLoseExchange, StepDrop, StepConnect, StepConnectFails, StepAuthorize, StepServe
    DEF ByBrowser, MainStep, ThreadStep
<1>3. CASE CodesAge \/ CodesLost
  BY <1>3, StepCodesAge, StepCodesLost
<1> QED
  BY <1>1, <1>2, <1>3 DEF LoginNext, Clock, RestartIssuer, loginVars

\* The browser login leaves the device login alone, but for the losses they share.
LEMMA DeviceKept == DeviceInv /\ [LoginNext]_loginVars => DeviceInv'
<1> SUFFICES ASSUME DeviceInv, [LoginNext]_loginVars PROVE DeviceInv'
  OBVIOUS
<1>1. CASE [Next]_vars
  BY <1>1, DeviceNext
<1>2. ASSUME UNCHANGED <<auth, age, cli, lag>>, lost' \in 0..MaxLost PROVE DeviceInv'
  <2>1. TypeOK'
    BY <1>2 DEF DeviceInv, TypeOK
  <2>2. ASSUME NEW p \in Client PROVE ClientInv(p)'
    BY <1>2 DEF DeviceInv, ClientInv, EntryKept, ClocksAgree, PollFollows, Approved, Expired
  <2> QED
    BY <2>1, <2>2 DEF DeviceInv
<1>3. ASSUME NEW p \in Client, ByDevice(p) PROVE Next
  BY <1>3 DEF ByDevice, Next
<1>4. ASSUME NEW p \in Client, ByBrowser(p) PROVE DeviceInv'
  <2>1. CASE LoseExchange(p) \/ AcceptFails(p) \/ ConnectFails(p)
    <3>1. /\ UNCHANGED <<auth, age, cli, lag>>
          /\ lost < MaxLost /\ lost' = lost + 1
      BY <2>1 DEF LoseExchange, AcceptFails, ConnectFails
    <3>2. lost' \in 0..MaxLost
      BY <3>1, DeviceAssumption DEF DeviceInv, TypeOK
    <3> QED
      BY <1>2, <3>1, <3>2
  <2>2. CASE ~(LoseExchange(p) \/ AcceptFails(p) \/ ConnectFails(p))
    <3>1. UNCHANGED vars
      BY <1>4, <2>2 DEF ByBrowser, MainStep, ThreadStep, StartServer, BuildUrl, Receive, Join, Exchange,
                        Drop, Connect, Authorize, Arrive, Serve, Respond
    <3> QED
      BY <1>1, <3>1
  <2> QED
    BY <2>1, <2>2
<1>5. (Tick => Next) /\ (Restart => Next)
  BY DEF Next
<1>6. CodesAge => UNCHANGED vars
  BY DEF CodesAge
<1>7. CASE CodesLost
  <2>1. lost < MaxLost /\ lost' = lost + 1 /\ UNCHANGED <<auth, age, cli, lag>>
    BY <1>7 DEF CodesLost
  <2>2. lost' \in 0..MaxLost
    BY <2>1, DeviceAssumption DEF DeviceInv, TypeOK
  <2> QED
    BY <1>2, <2>1, <2>2
<1> QED
  BY <1>1, <1>3, <1>4, <1>5, <1>6, <1>7 DEF LoginNext, Clock, RestartIssuer, loginVars

-----------------------------------------------------------------------------
\* Both invariants, for the login of either kind.
THEOREM LoginInvariance == LoginSpec => [](DeviceInv /\ WebInv)
<1>1. LoginInit => DeviceInv /\ WebInv
  BY InitDevice, InitWeb DEF LoginInit
<1>2. DeviceInv /\ WebInv /\ [LoginNext]_loginVars => (DeviceInv /\ WebInv)'
  BY DeviceKept, WebNext
<1> QED
  BY <1>1, <1>2, PTL DEF LoginSpec

\* The ages, clocks and sleeps of the device login stay within their bounds.
THEOREM TypeCorrect == LoginSpec => []TypeOK
<1>1. DeviceInv => TypeOK
  BY DEF DeviceInv
<1> QED
  BY <1>1, LoginInvariance, PTL

\* A login that timed out, or was told its code expired, was approved too late
\* for one more poll: within two intervals, and what was late, of the lifetime;
\* unless a restart of the issuer took its entry away.
THEOREM ApprovalReachesCliHolds == LoginSpec => []ApprovalReachesCli
<1>1. DeviceInv => ApprovalReachesCli
  BY DEF DeviceInv, ClientInv, PollFollows, ApprovalReachesCli
<1> QED
  BY <1>1, LoginInvariance, PTL

\* Neither pruning for another login nor the single use of a code refuses a
\* login whose code is alive; only a restart of the issuer does.
THEOREM RefusedOnlyExpiredHolds == LoginSpec => []RefusedOnlyExpired
<1>1. DeviceInv => RefusedOnlyExpired
  BY DEF DeviceInv, ClientInv, EntryKept, RefusedOnlyExpired
<1> QED
  BY <1>1, LoginInvariance, PTL

\* A login through the browser is granted the tokens of its own approval,
\* however many other logins run and whatever reaches the ports, unless its
\* code came to the issuer too late or after a restart.
THEOREM TokensOfApprovalHolds == LoginSpec => []TokensOfApproval
<1>1. WebInv => TokensOfApproval
  BY DEF WebInv, WebClient, OwnTokens, TokensOfApproval
<1> QED
  BY <1>1, LoginInvariance, PTL
=============================================================================
