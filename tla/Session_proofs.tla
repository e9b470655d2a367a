--------------------------- MODULE Session_proofs ---------------------------
(***************************************************************************)
(* Proofs about Session: for any number of processes, grants and faults,   *)
(* and for an issuer that rotates refresh tokens, keeps them or refuses    *)
(* them.                                                                   *)
(***************************************************************************)
EXTENDS Session, TLAPS

\* A process that has tokens to save.
Savers == {p \in Proc : proc[p].phase \in Saving \union Writing}

\* A process has tokens while it refreshes them or is to save them.
Holding == {"refresh"} \union Saving \union Writing

TokensInPhase ==
    \A p \in Proc : proc[p].tokens # NoSession <=> proc[p].phase \in Holding

\* t is in the file or in the hands of a process.
Held(t) == t \in Tokens /\ (t = stored \/ \E p \in Proc : t = proc[p].tokens)

\* What the issuer has granted is all there is.
GrantedOnly ==
    /\ live \subseteq 1..grants
    /\ \A t \in Tokens : Held(t) => t.refresh <= grants

\* A refresh token belongs to one session.
OneSession ==
    \A t, u \in Tokens : Held(t) /\ Held(u) /\ t.refresh = u.refresh => t.session = u.session

\* Of an issuer that keeps its tokens, every one stays good.
KeptAlive == issuer = "keeping" => \A t \in Tokens : Held(t) => t.refresh \in live

\* Nobody refreshes with a token that somebody else is to save.
RefreshingOthers ==
    issuer = "rotating" => \A p \in Savers, q \in Proc :
        proc[q].phase = "refresh" => proc[q].tokens.refresh # proc[p].tokens.refresh

\* Who loaded tokens after the last login or logout has those of the session, and
\* so does the login itself once it has opened the file.
CurrentHolders ==
    ~undone => \A p \in Proc : proc[p].phase \in {"refresh", "save", "write", "writeLogin"}
                                  /\ p \notin overtaken
                  => proc[p].tokens.session = intent

\* Who has the file open is about to write it.
WritersWrite == \A p \in writers : proc[p].phase \in Writing

\* Unless saves have overlapped or one was cut short, the file is empty only
\* while the one process that has it open is about to write it.
OneWriter ==
    ~spoiled => \/ writers = {} /\ stored \in Tokens \union {NoSession}
                \/ stored = Blank /\ \E p \in Proc : writers = {p}

IInv ==
    /\ TypeOK
    /\ TokensInPhase
    /\ GrantedOnly
    /\ OneSession
    /\ KeptAlive
    /\ RefreshingOthers
    /\ CurrentHolders
    /\ WritersWrite
    /\ OneWriter
    /\ SessionNotStranded
    /\ LastLoginWins
    /\ SavedTokenUnused

-----------------------------------------------------------------------------
\* The initial state satisfies the invariant.
LEMMA InitIInv == Init => IInv
<1> SUFFICES ASSUME Init PROVE IInv
  OBVIOUS
<1>1. \A p \in Proc : proc[p].phase = "idle" /\ proc[p].tokens = NoSession
  BY DEF Init, Idle, At
<1>2. TypeOK
  <2>1. Idle \in Process
    BY DEF Idle, At, Process, Phase
  <2>2. 0 \in 0..MaxGrant /\ 0 \in 0..MaxFaults
    BY SessionAssumption
  <2> QED
    BY <2>1, <2>2 DEF Init, TypeOK
<1>3. Savers = {}
  BY <1>1 DEF Savers, Saving, Writing
<1>4. ASSUME NEW t PROVE ~Held(t)
  BY <1>1, NoSessionAssumption DEF Init, Held
<1>5. TokensInPhase
  BY <1>1 DEF TokensInPhase, Holding, Saving, Writing
<1>6. GrantedOnly /\ OneSession /\ KeptAlive
  BY <1>4 DEF Init, GrantedOnly, OneSession, KeptAlive
<1>7. RefreshingOthers /\ CurrentHolders /\ SavedTokenUnused
  BY <1>1, <1>3 DEF RefreshingOthers, CurrentHolders, SavedTokenUnused, Savers
<1>8. WritersWrite /\ OneWriter
  BY DEF Init, WritersWrite, OneWriter
<1>9. SessionNotStranded /\ LastLoginWins
  BY NoSessionAssumption DEF Init, SessionNotStranded, LastLoginWins
<1> QED
  BY <1>2, <1>5, <1>6, <1>7, <1>8, <1>9 DEF IInv

\* Of whatever type a process is, At has the fields it is given.
LEMMA Fields ==
    ASSUME NEW phase \in Phase, NEW hasKey \in BOOLEAN, NEW t \in Tokens \union {NoSession}
    PROVE  /\ At(phase, hasKey, t) \in Process
           /\ At(phase, hasKey, t).phase = phase
           /\ At(phase, hasKey, t).hasKey = hasKey
           /\ At(phase, hasKey, t).tokens = t
BY DEF At, Process

\* Only the slot of the process that moves changes.
LEMMA Moved ==
    ASSUME TypeOK, NEW p \in Proc, NEW x \in Process, Become(p, x)
    PROVE  /\ proc' \in [Proc -> Process]
           /\ proc'[p] = x
           /\ \A q \in Proc \ {p} : proc'[q] = proc[q]
           /\ overtaken' \subseteq Proc
           /\ \A q \in Proc \ {p} : q \in overtaken' <=> q \in overtaken
           /\ x.tokens # NoSession => overtaken' = overtaken
BY DEF TypeOK, Become

\* What a process works with are tokens that it holds; so are those in the file.
LEMMA Holders ==
    ASSUME IInv
    PROVE  /\ \A q \in Proc : proc[q].phase \in Holding =>
                  /\ proc[q].tokens \in Tokens /\ Held(proc[q].tokens)
                  /\ proc[q].tokens # NoSession
           /\ stored \in Tokens => Held(stored)
BY NoSessionAssumption DEF IInv, TypeOK, Process, TokensInPhase, Held

\* Which phases are which.
LEMMA Phases ==
    /\ Saving \union Writing \subseteq Holding
    /\ "idle" \notin Holding /\ "ready" \notin Holding /\ "call" \notin Holding
    /\ "deleteKey" \notin Holding
    /\ "refresh" \in Holding /\ "refresh" \notin Saving \union Writing
    /\ "save" \in Saving /\ "saveLogin" \in Saving
    /\ "write" \in Writing /\ "writeLogin" \in Writing
    /\ Saving \intersect Writing = {}
    /\ Saving \subseteq Phase /\ Writing \subseteq Phase
    /\ \A phase \in Saving \union Writing :
          phase \in {"save", "write", "writeLogin"} \/ phase = "saveLogin"
BY DEF Holding, Saving, Writing, Phase

\* A process that has no tokens afterwards; if it was to save some, by a fault.
LEMMA LetGo ==
    ASSUME IInv, NEW p \in Proc, NEW x \in Process, Become(p, x),
           x.tokens = NoSession, x.phase \notin Holding,
           UNCHANGED <<issuer, stored, live, grants, intent, undone, expiring>>,
           apiKey' \in BOOLEAN, faults' \in 0..MaxFaults,
           writers' = writers \ {p}, spoiled' = (spoiled \/ p \in writers),
           hurt \subseteq hurt', hurt' \subseteq Grant,
           proc[p].phase \in Saving \union Writing => proc[p].tokens.session \in hurt'
    PROVE  IInv'
<1>1. /\ proc' \in [Proc -> Process]
      /\ proc'[p] = x
      /\ \A q \in Proc \ {p} : proc'[q] = proc[q]
      /\ overtaken' \subseteq Proc
      /\ \A q \in Proc \ {p} : q \in overtaken' <=> q \in overtaken
  BY Moved DEF IInv
<1>2. x.phase \notin {"refresh", "save", "write", "writeLogin"} /\ x.phase \notin Saving \union Writing
  BY Phases
<1>3. TypeOK'
  BY <1>1 DEF IInv, TypeOK
<1>4. TokensInPhase'
  BY <1>1 DEF IInv, TokensInPhase
<1>5. ASSUME NEW t, Held(t)' PROVE Held(t)
  BY <1>1, <1>5, NoSessionAssumption DEF Held
<1>6. GrantedOnly' /\ OneSession' /\ KeptAlive'
  BY <1>5 DEF IInv, GrantedOnly, OneSession, KeptAlive
<1>7. Savers' = Savers \ {p}
  BY <1>1, <1>2 DEF Savers
<1>8. RefreshingOthers'
  <2>1. \A q \in Savers' : q \in Savers /\ q \in Proc \ {p} /\ proc'[q] = proc[q]
    BY <1>1, <1>7 DEF Savers
  <2>2. \A q \in Proc : proc'[q].phase = "refresh" => proc[q].phase = "refresh" /\ proc'[q] = proc[q]
    BY <1>1, <1>2
  <2> QED
    BY <2>1, <2>2 DEF IInv, RefreshingOthers
<1>9. CurrentHolders'
  BY <1>1, <1>2 DEF IInv, CurrentHolders
<1>10. WritersWrite'
  BY <1>1 DEF IInv, TypeOK, WritersWrite
<1>11. OneWriter'
  <2> SUFFICES ASSUME ~spoiled'
               PROVE  \/ writers' = {} /\ stored \in Tokens \union {NoSession}
                      \/ stored = Blank /\ \E q \in Proc : writers' = {q}
    BY DEF OneWriter
  <2>1. ~spoiled /\ writers' = writers
    OBVIOUS
  <2> QED
    BY <2>1 DEF IInv, OneWriter
<1>12. SessionNotStranded'
  <2> SUFFICES ASSUME issuer # "refusing", ~spoiled'
               PROVE  /\ stored # Mixed
                      /\ stored = Blank => writers' # {}
                      /\ stored \in Tokens =>
                            \/ stored.refresh \in live
                            \/ issuer = "rotating" /\ stored.session \in hurt'
                            \/ \E q \in Proc : proc'[q].phase = "save" /\ proc'[q].tokens.refresh \in live
                                               /\ proc'[q].tokens.session = stored.session
    BY DEF SessionNotStranded
  <2>1. ~spoiled /\ writers' = writers
    OBVIOUS
  <2>2. CASE issuer = "keeping"
    BY <2>1, <2>2, Holders DEF IInv, SessionNotStranded, KeptAlive
  <2>3. CASE issuer = "rotating"
    <3>1. ASSUME NEW q \in Proc, proc[q].phase = "save", proc[q].tokens.session = stored.session,
                 proc[q].tokens.refresh \in live
          PROVE  \/ stored.session \in hurt'
                 \/ \E r \in Proc : proc'[r].phase = "save" /\ proc'[r].tokens.refresh \in live
                                    /\ proc'[r].tokens.session = stored.session
      <4>1. CASE q = p
        BY <3>1, <4>1, Phases
      <4>2. CASE q # p
        BY <1>1, <3>1, <4>2
      <4> QED
        BY <4>1, <4>2
    <3> QED
      BY <2>1, <2>3, <3>1 DEF IInv, SessionNotStranded
  <2> QED
    BY <2>2, <2>3 DEF IInv, TypeOK, Issuer
<1>13. LastLoginWins'
  <2>1. \A q \in writers' : q \in writers /\ q # p /\ q \in Proc /\ proc'[q] = proc[q]
    BY <1>1 DEF IInv, TypeOK
  <2>2. ~spoiled' => writers' = writers
    OBVIOUS
  <2> QED
    BY <2>1, <2>2 DEF IInv, LastLoginWins
<1>14. SavedTokenUnused'
  BY <1>1, <1>7 DEF IInv, SavedTokenUnused, Savers
<1> QED
  BY <1>3, <1>4, <1>6, <1>8, <1>9, <1>10, <1>11, <1>12, <1>13, <1>14 DEF IInv

\* A process takes the tokens from the file to refresh them.
LEMMA TakeTokens ==
    ASSUME IInv, NEW p \in Proc, Become(p, At("refresh", FALSE, stored)),
           stored \in Tokens, proc[p].phase = "ready",
           UNCHANGED <<issuer, file, apiKey, live, grants, intent, undone, expiring, faults, hurt>>
    PROVE  IInv'
<1> DEFINE x == At("refresh", FALSE, stored)
<1>1. stored # NoSession
  BY NoSessionAssumption
<1>2. x \in Process /\ x.phase = "refresh" /\ x.tokens = stored
  <2>1. "refresh" \in Phase /\ stored \in Tokens \union {NoSession}
    BY DEF Phase
  <2> QED
    BY <2>1, Fields
<1>3. /\ proc' \in [Proc -> Process]
      /\ proc'[p] = x
      /\ \A q \in Proc \ {p} : proc'[q] = proc[q]
      /\ overtaken' = overtaken
  BY <1>1, <1>2, Moved DEF IInv
<1>4. UNCHANGED <<stored, writers, spoiled>>
  BY DEF file
<1> HIDE DEF x
<1>5. TypeOK'
  BY <1>3, <1>4 DEF IInv, TypeOK
<1>6. TokensInPhase'
  BY <1>1, <1>2, <1>3, Phases DEF IInv, TokensInPhase
<1>7. ASSUME NEW t, Held(t)' PROVE Held(t)
  BY <1>2, <1>3, <1>4, <1>7 DEF Held
<1>8. GrantedOnly' /\ OneSession' /\ KeptAlive'
  BY <1>7 DEF IInv, GrantedOnly, OneSession, KeptAlive
<1>9. p \notin Savers /\ p \notin writers
  BY DEF IInv, WritersWrite, Savers, Saving, Writing
<1>10. Savers' = Savers
  BY <1>2, <1>3, <1>9, Phases DEF Savers
<1>11. RefreshingOthers'
  <2>1. ASSUME NEW s \in Savers, issuer = "rotating" PROVE stored.refresh # proc[s].tokens.refresh
    BY <2>1 DEF IInv, SavedTokenUnused, Savers
  <2> QED
    BY <1>2, <1>3, <1>9, <1>10, <2>1 DEF IInv, RefreshingOthers, Savers
<1>12. CurrentHolders'
  <2>1. ~undone => stored.session = intent
    BY <1>1 DEF IInv, LastLoginWins
  <2> QED
    BY <1>2, <1>3, <2>1 DEF IInv, CurrentHolders
<1>13. WritersWrite'
  BY <1>3, <1>4, <1>9 DEF IInv, TypeOK, WritersWrite
<1>14. OneWriter'
  BY <1>4 DEF IInv, OneWriter
<1>15. SessionNotStranded'
  BY <1>3, <1>4 DEF IInv, SessionNotStranded
<1>16. LastLoginWins'
  BY <1>3, <1>4, <1>9 DEF IInv, TypeOK, LastLoginWins
<1>17. SavedTokenUnused'
  BY <1>3, <1>4, <1>9, <1>10 DEF IInv, SavedTokenUnused, Savers
<1> QED
  BY <1>5, <1>6, <1>8, <1>11, <1>12, <1>13, <1>14, <1>15, <1>16, <1>17 DEF IInv

\* The issuer's counter goes up, and the new token is a number nobody has.
LEMMA Grants ==
    ASSUME IInv, grants < MaxGrant
    PROVE  /\ grants + 1 \in Grant
           /\ grants + 1 \in 0..MaxGrant
           /\ grants + 1 \notin live
           /\ \A t \in Tokens : Held(t) => t.refresh # grants + 1 /\ t.refresh <= grants + 1
           /\ live \subseteq 1..(grants + 1)
<1>1. grants \in 0..MaxGrant /\ live \subseteq 1..grants /\ MaxGrant \in Nat
  BY SessionAssumption DEF IInv, TypeOK, GrantedOnly
<1>2. ASSUME NEW t \in Tokens, Held(t)
      PROVE  t.refresh # grants + 1 /\ t.refresh <= grants + 1
  <2>1. t.refresh \in Nat /\ t.refresh <= grants
    BY <1>2 DEF IInv, GrantedOnly, Tokens, Grant
  <2> QED
    BY <1>1, <2>1
<1> QED
  BY <1>1, <1>2 DEF Grant

\* A login is granted tokens of a new session, to be saved.
LEMMA StepLoginGrant ==
    ASSUME IInv, NEW p \in Proc, LoginGrant(p)
    PROVE  IInv'
<1> DEFINE n == grants + 1
           t == Granted(n, n, n)
           x == At("saveLogin", FALSE, t)
<1>1. /\ n \in Grant /\ n \in 0..MaxGrant /\ n \notin live
      /\ \A u \in Tokens : Held(u) => u.refresh # n /\ u.refresh <= n
      /\ live \subseteq 1..n
  BY Grants DEF LoginGrant
<1>2. t \in Tokens /\ t.refresh = n /\ t.session = n
  BY <1>1 DEF Granted, Tokens
<1>3. x \in Process /\ x.phase = "saveLogin" /\ x.tokens = t
  <2>1. "saveLogin" \in Phase /\ t \in Tokens \union {NoSession}
    BY <1>2 DEF Phase, Saving, Writing
  <2> HIDE DEF t
  <2> QED
    BY <2>1, Fields
<1>4. t # NoSession
  BY <1>2, NoSessionAssumption
<1>5. /\ proc' \in [Proc -> Process]
      /\ proc'[p] = x
      /\ \A q \in Proc \ {p} : proc'[q] = proc[q]
      /\ overtaken' = overtaken
  BY <1>3, <1>4, Moved DEF IInv, LoginGrant
<1>6. /\ proc[p].phase = "idle" /\ grants' = n
      /\ live' = IF issuer = "refusing" THEN live ELSE live \union {n}
      /\ UNCHANGED <<issuer, stored, writers, spoiled, apiKey, expiring, faults, intent, undone, hurt>>
  BY DEF LoginGrant, file, intention
<1>7. ASSUME NEW u, Held(u)' PROVE Held(u) \/ u = t
  BY <1>3, <1>5, <1>6, <1>7 DEF Held
<1> HIDE DEF n, t, x
<1>8. TypeOK'
  BY <1>1, <1>5, <1>6 DEF IInv, TypeOK
<1>9. TokensInPhase'
  BY <1>3, <1>4, <1>5, <1>6, Phases DEF IInv, TokensInPhase
<1>10. GrantedOnly'
  <2>1. n \in Nat /\ n \in 1..n
    BY <1>1 DEF Grant
  <2>2. live' \subseteq live \union {n}
    BY <1>6
  <2>3. live' \subseteq 1..n
    BY <1>1, <2>1, <2>2
  <2> QED
    BY <1>1, <1>2, <1>6, <1>7, <2>1, <2>3 DEF GrantedOnly
<1>11. OneSession'
  BY <1>1, <1>2, <1>7 DEF IInv, OneSession
<1>12. KeptAlive'
  BY <1>2, <1>6, <1>7 DEF IInv, KeptAlive
<1>13. \A q \in Proc : proc[q].phase \in Holding => proc[q].tokens.refresh # n
  BY <1>1, Holders
<1>14. p \notin Savers /\ p \notin writers
  BY <1>6 DEF IInv, WritersWrite, Savers, Saving, Writing
<1>15. Savers' = Savers \union {p}
  BY <1>3, <1>5, Phases DEF Savers
<1>16. \A q \in Savers : q \in Proc \ {p} /\ proc'[q] = proc[q] /\ proc[q].tokens.refresh # n
  BY <1>5, <1>13, <1>14, Phases DEF Savers
<1>17. RefreshingOthers'
  <2>1. \A q \in Proc : proc'[q].phase = "refresh" => q # p /\ proc[q].phase = "refresh"
                                                      /\ proc[q].tokens.refresh # n
    BY <1>3, <1>5, <1>13, Phases
  <2> QED
    BY <1>2, <1>3, <1>5, <1>6, <1>15, <1>16, <2>1 DEF IInv, RefreshingOthers
<1>18. CurrentHolders'
  BY <1>3, <1>5, <1>6 DEF IInv, CurrentHolders
<1>19. WritersWrite'
  BY <1>5, <1>6, <1>14 DEF IInv, TypeOK, WritersWrite
<1>20. OneWriter'
  BY <1>6 DEF IInv, OneWriter
<1>21. SessionNotStranded'
  BY <1>5, <1>6 DEF IInv, SessionNotStranded
<1>22. LastLoginWins'
  BY <1>5, <1>6, <1>14 DEF IInv, TypeOK, LastLoginWins
<1>23. SavedTokenUnused'
  <2>1. stored \in Tokens => stored.refresh # n
    BY <1>1, Holders
  <2> QED
    BY <1>2, <1>3, <1>5, <1>6, <1>15, <1>16, <2>1 DEF IInv, SavedTokenUnused, Savers
<1> QED
  BY <1>8, <1>9, <1>10, <1>11, <1>12, <1>17, <1>18, <1>19, <1>20, <1>21, <1>22, <1>23 DEF IInv

\* A process opens the file to save its tokens; the bytes that were there are
\* gone, and all that is held was held before.
LEMMA Opens ==
    ASSUME IInv, NEW p \in Proc, NEW x \in Process, proc[p].phase \in Saving,
           x.phase \in Writing, x.tokens = proc[p].tokens,
           OpenFile(p), proc' = [proc EXCEPT ![p] = x],
           UNCHANGED <<issuer, apiKey, live, expiring, grants, faults, hurt>>,
           intent' \in Grant \union {NoSession}, overtaken' \subseteq Proc, undone' \in BOOLEAN,
           CurrentHolders', ~undone' => intent' = proc[p].tokens.session
    PROVE  IInv'
<1>1. /\ stored' = Blank /\ writers' = writers \union {p} /\ spoiled' = (writers # {})
  BY DEF OpenFile
<1>2. /\ proc' \in [Proc -> Process]
      /\ proc'[p] = x
      /\ \A q \in Proc \ {p} : proc'[q] = proc[q]
  BY DEF IInv, TypeOK
<1>3. \A q \in Proc : proc'[q].tokens = proc[q].tokens
  BY <1>2
<1>4. proc[p].phase \in Holding /\ x.phase \in Holding /\ Savers' = Savers /\ p \in Savers
  BY <1>2, Phases DEF Savers
<1>5. Blank \notin Tokens /\ Blank # NoSession /\ Blank # Mixed
  BY NoSessionAssumption
<1>6. ASSUME NEW u, Held(u)' PROVE Held(u)
  BY <1>1, <1>3, <1>5, <1>6 DEF Held
<1>7. TypeOK'
  BY <1>1, <1>2 DEF IInv, TypeOK
<1>8. TokensInPhase'
  BY <1>2, <1>4 DEF IInv, TokensInPhase
<1>9. GrantedOnly' /\ OneSession' /\ KeptAlive'
  BY <1>6 DEF IInv, GrantedOnly, OneSession, KeptAlive
<1>10. RefreshingOthers'
  BY <1>2, <1>3, <1>4, Phases DEF IInv, RefreshingOthers
<1>11. WritersWrite'
  BY <1>1, <1>2 DEF IInv, TypeOK, WritersWrite
<1>12. OneWriter'
  BY <1>1 DEF OneWriter
<1>13. SessionNotStranded'
  BY <1>1, <1>5 DEF SessionNotStranded
<1>14. LastLoginWins'
  <2>1. proc[p].tokens.session \in Grant /\ NoSession \notin Grant
    BY <1>4, Holders, SessionAssumption DEF Tokens, Grant
  <2>2. p \in writers' /\ proc'[p].tokens.session = proc[p].tokens.session
    BY <1>1, <1>3
  <2> QED
    BY <1>1, <1>5, <2>1, <2>2 DEF LastLoginWins
<1>15. SavedTokenUnused'
  BY <1>1, <1>3, <1>4, <1>5 DEF IInv, SavedTokenUnused, Savers
<1> QED
  BY <1>7, <1>8, <1>9, <1>10, <1>11, <1>12, <1>13, <1>14, <1>15 DEF IInv

\* Whoever has tokens when a login opens the file is older than it.
LEMMA StepLoginOpens ==
    ASSUME IInv, NEW p \in Proc, LoginOpens(p)
    PROVE  IInv'
<1> DEFINE t == proc[p].tokens
           x == At("writeLogin", FALSE, t)
<1>1. /\ proc[p].phase = "saveLogin" /\ OpenFile(p)
      /\ proc' = [proc EXCEPT ![p] = x]
      /\ intent' = t.session /\ undone' = FALSE
      /\ overtaken' = {q \in Proc \ {p} : proc[q].tokens # NoSession}
      /\ UNCHANGED <<issuer, apiKey, live, expiring, grants, faults, hurt>>
  BY DEF LoginOpens, Intend
<1>2. t \in Tokens
  BY <1>1, Holders, Phases
<1>3. x \in Process /\ x.phase = "writeLogin" /\ x.tokens = t
  <2>1. "writeLogin" \in Phase /\ t \in Tokens \union {NoSession}
    BY <1>2 DEF Phase, Saving, Writing
  <2> HIDE DEF t
  <2> QED
    BY <2>1, Fields
<1>4. intent' \in Grant /\ overtaken' \subseteq Proc
  BY <1>1, <1>2 DEF Tokens
<1> HIDE DEF x
<1>5. /\ proc'[p] = x
      /\ \A q \in Proc \ {p} : proc'[q] = proc[q]
  BY <1>1 DEF IInv, TypeOK
<1>6. CurrentHolders'
  <2>1. ASSUME NEW q \in Proc \ {p}, proc[q].phase \in {"refresh", "save", "write", "writeLogin"}
        PROVE  q \in overtaken'
    BY <1>1, <2>1, Holders, Phases
  <2> QED
    BY <1>1, <1>3, <1>5, <2>1 DEF CurrentHolders
<1>7. proc[p].phase \in Saving /\ x.phase \in Writing
  BY <1>1, <1>3, Phases
<1> QED
  BY <1>1, <1>3, <1>4, <1>6, <1>7, Opens

\* Refreshed tokens are those of the last login, or an overtaken process saves.
LEMMA StepRefreshOpens ==
    ASSUME IInv, NEW p \in Proc, RefreshOpens(p)
    PROVE  IInv'
<1> DEFINE t == proc[p].tokens
           x == At("write", FALSE, t)
<1>1. /\ proc[p].phase = "save" /\ OpenFile(p) /\ Become(p, x)
      /\ proc' = [proc EXCEPT ![p] = x]
      /\ undone' = (undone \/ p \in overtaken)
      /\ UNCHANGED <<issuer, apiKey, live, expiring, grants, faults, intent, hurt>>
  BY DEF RefreshOpens, Become
<1>2. t \in Tokens /\ t # NoSession
  BY <1>1, Holders, Phases
<1>3. x \in Process /\ x.phase = "write" /\ x.tokens = t
  <2>1. "write" \in Phase /\ t \in Tokens \union {NoSession}
    BY <1>2 DEF Phase, Saving, Writing
  <2> HIDE DEF t
  <2> QED
    BY <2>1, Fields
<1> HIDE DEF x
<1>4. /\ proc'[p] = x
      /\ \A q \in Proc \ {p} : proc'[q] = proc[q]
      /\ overtaken' = overtaken
  BY <1>1, <1>2, <1>3, Moved DEF IInv
<1>5. CurrentHolders'
  BY <1>1, <1>3, <1>4 DEF IInv, CurrentHolders
<1>6. ~undone' => intent' = t.session
  BY <1>1 DEF IInv, CurrentHolders
<1>7. /\ undone' \in BOOLEAN /\ intent' \in Grant \union {NoSession}
      /\ overtaken' \subseteq Proc
  BY <1>1, <1>4 DEF IInv, TypeOK
<1>8. proc[p].phase \in Saving /\ x.phase \in Writing
  BY <1>1, <1>3, Phases
<1> QED
  BY <1>1, <1>3, <1>5, <1>6, <1>7, <1>8, Opens

\* A process writes its tokens: they are in the file if nobody has written it
\* since it was opened, and nobody else has them; or the file has been removed.
LEMMA Writes ==
    ASSUME IInv, NEW p \in Proc, NEW x \in Process, proc[p].phase \in Writing,
           x.phase \notin Holding, x.tokens = NoSession,
           WriteFile(p), Become(p, x),
           UNCHANGED <<issuer, apiKey, live, expiring, grants, faults, hurt>>
    PROVE  IInv'
<1> DEFINE t == proc[p].tokens
<1>1. /\ stored' \in IF p \notin writers THEN {stored}
                     ELSE IF stored = Blank THEN {t} ELSE {t, Mixed}
      /\ writers' = writers \ {p}
      /\ undone' = (undone \/ p \in overtaken \intersect writers)
      /\ spoiled' = spoiled /\ intent' = intent
  BY DEF WriteFile
<1>2. t \in Tokens /\ Held(t) /\ t # NoSession
  BY Holders, Phases
<1>3. /\ proc' \in [Proc -> Process]
      /\ proc'[p] = x
      /\ \A q \in Proc \ {p} : proc'[q] = proc[q]
      /\ overtaken' \subseteq Proc
      /\ \A q \in Proc \ {p} : q \in overtaken' <=> q \in overtaken
  BY Moved DEF IInv
<1>4. x.phase \notin {"refresh", "save", "write", "writeLogin"} /\ x.phase \notin Saving \union Writing
  BY Phases
<1>5. stored' = stored \/ stored' = t \/ stored' = Mixed
  BY <1>1
<1>6. Mixed \notin Tokens /\ Mixed # Blank /\ Mixed # NoSession /\ Blank \notin Tokens /\ Blank # NoSession
  BY NoSessionAssumption
<1>7. ASSUME NEW u, Held(u)' PROVE Held(u)
  BY <1>2, <1>3, <1>5, <1>6, <1>7, NoSessionAssumption DEF Held
<1>8. ~spoiled /\ p \in writers => stored = Blank /\ writers = {p}
  BY DEF IInv, OneWriter
<1>9. TypeOK'
  BY <1>1, <1>2, <1>3, <1>5 DEF IInv, TypeOK
<1>10. TokensInPhase'
  BY <1>3 DEF IInv, TokensInPhase
<1>11. GrantedOnly' /\ OneSession' /\ KeptAlive'
  BY <1>7 DEF IInv, GrantedOnly, OneSession, KeptAlive
<1>12. p \in Savers /\ Savers' = Savers \ {p}
  BY <1>3, <1>4 DEF Savers
<1>13. RefreshingOthers'
  <2>1. \A q \in Savers' : q \in Savers /\ q \in Proc \ {p} /\ proc'[q] = proc[q]
    BY <1>3, <1>12 DEF Savers
  <2>2. \A q \in Proc : proc'[q].phase = "refresh" => proc[q].phase = "refresh" /\ proc'[q] = proc[q]
    BY <1>3, <1>4
  <2> QED
    BY <2>1, <2>2 DEF IInv, RefreshingOthers
<1>14. CurrentHolders'
  BY <1>1, <1>3, <1>4 DEF IInv, CurrentHolders
<1>15. WritersWrite'
  BY <1>1, <1>3 DEF IInv, TypeOK, WritersWrite
<1>16. OneWriter'
  BY <1>1, <1>2, <1>8 DEF IInv, OneWriter
<1>17. SessionNotStranded'
  <2>1. CASE p \in writers
    <3>1. issuer # "refusing" => t.refresh \in live
      BY <1>2 DEF IInv, TypeOK, Issuer, KeptAlive, SavedTokenUnused
    <3> QED
      BY <1>1, <1>2, <1>6, <1>8, <2>1, <3>1 DEF SessionNotStranded
  <2>2. CASE p \notin writers
    <3>1. stored' = stored /\ writers' = writers
      BY <1>1, <2>2
    <3>2. ASSUME NEW q \in Proc, proc[q].phase = "save"
          PROVE  proc'[q] = proc[q]
      BY <1>3, <3>2, Phases
    <3> QED
      BY <1>1, <3>1, <3>2 DEF IInv, SessionNotStranded
  <2> QED
    BY <2>1, <2>2
<1>18. LastLoginWins'
  <2>1. CASE p \in writers
    <3>1. ~undone' => t.session = intent
      <4>1. proc[p].phase \in {"write", "writeLogin"}
        BY DEF Writing
      <4> QED
        BY <1>1, <2>1, <4>1 DEF IInv, CurrentHolders
    <3>2. t.session \in Grant /\ NoSession \notin Grant
      BY <1>2, SessionAssumption DEF Tokens, Grant
    <3>3. stored' = t \/ (stored' = Mixed /\ spoiled)
      BY <1>1, <1>8, <2>1
    <3> QED
      BY <1>1, <1>2, <1>6, <3>1, <3>2, <3>3 DEF LastLoginWins
  <2>2. CASE p \notin writers
    <3>1. stored' = stored /\ writers' = writers /\ undone' = undone
      BY <1>1, <2>2 DEF IInv, TypeOK
    <3>2. \A q \in writers : proc'[q] = proc[q]
      BY <1>3, <2>2 DEF IInv, TypeOK
    <3> QED
      BY <1>1, <3>1, <3>2 DEF IInv, LastLoginWins
  <2> QED
    BY <2>1, <2>2
<1>19. SavedTokenUnused'
  <2>1. \A q \in Savers' : q \in Savers /\ q \in Proc \ {p} /\ proc'[q] = proc[q]
    BY <1>3, <1>12 DEF Savers
  <2>2. ASSUME NEW q \in Savers', issuer = "rotating"
        PROVE  /\ proc[q].tokens.refresh \in live
               /\ stored' \in Tokens => stored'.refresh # proc[q].tokens.refresh
               /\ \A r \in Savers' \ {q} : proc[r].tokens.refresh # proc[q].tokens.refresh
    BY <1>5, <1>6, <1>12, <2>1, <2>2 DEF IInv, SavedTokenUnused, Savers
  <2> QED
    BY <2>1, <2>2 DEF SavedTokenUnused, Savers
<1> QED
  BY <1>9, <1>10, <1>11, <1>13, <1>14, <1>15, <1>16, <1>17, <1>18, <1>19 DEF IInv

\* A logout removes the file from under whoever has it open, and all tokens that
\* are held are older.
LEMMA StepLogoutTokens ==
    ASSUME IInv, NEW p \in Proc, LogoutTokens(p)
    PROVE  IInv'
<1> DEFINE x == At("deleteKey", FALSE, NoSession)
<1>1. x \in Process /\ x.phase = "deleteKey" /\ x.tokens = NoSession
  <2>1. "deleteKey" \in Phase /\ NoSession \in Tokens \union {NoSession}
    BY DEF Phase
  <2> QED
    BY <2>1, Fields
<1>2. /\ stored' = NoSession /\ writers' = {} /\ spoiled' = FALSE
      /\ proc' = [proc EXCEPT ![p] = x]
      /\ intent' = NoSession /\ undone' = FALSE
      /\ overtaken' = {q \in Proc \ {p} : proc[q].tokens # NoSession}
      /\ UNCHANGED <<issuer, apiKey, live, expiring, grants, faults, hurt>>
      /\ proc[p].phase = "idle"
  BY DEF LogoutTokens, Intend
<1> HIDE DEF x
<1>3. /\ proc' \in [Proc -> Process]
      /\ proc'[p] = x
      /\ \A q \in Proc \ {p} : proc'[q] = proc[q]
  BY <1>1, <1>2 DEF IInv, TypeOK
<1>4. NoSession \notin Tokens /\ NoSession # Blank /\ NoSession # Mixed
  BY NoSessionAssumption
<1>5. ASSUME NEW u, Held(u)' PROVE Held(u)
  BY <1>1, <1>2, <1>3, <1>4, <1>5 DEF Held
<1>6. TypeOK'
  BY <1>2, <1>3 DEF IInv, TypeOK
<1>7. TokensInPhase'
  BY <1>1, <1>3, Phases DEF IInv, TokensInPhase
<1>8. GrantedOnly' /\ OneSession' /\ KeptAlive'
  BY <1>2, <1>5 DEF IInv, GrantedOnly, OneSession, KeptAlive
<1>9. Savers' = Savers /\ p \notin Savers
  BY <1>1, <1>2, <1>3, Phases DEF Savers
<1>10. RefreshingOthers'
  BY <1>1, <1>2, <1>3, <1>9 DEF IInv, RefreshingOthers, Savers
<1>11. CurrentHolders'
  <2>1. ASSUME NEW q \in Proc \ {p}, proc[q].phase \in {"refresh", "save", "write", "writeLogin"}
        PROVE  q \in overtaken'
    BY <1>2, <2>1, Holders, Phases
  <2> QED
    BY <1>1, <1>3, <2>1 DEF CurrentHolders
<1>12. WritersWrite' /\ OneWriter'
  BY <1>2 DEF WritersWrite, OneWriter
<1>13. SessionNotStranded' /\ LastLoginWins'
  BY <1>2, <1>4 DEF SessionNotStranded, LastLoginWins
<1>14. SavedTokenUnused'
  BY <1>2, <1>3, <1>4, <1>9 DEF IInv, SavedTokenUnused, Savers
<1> QED
  BY <1>6, <1>7, <1>8, <1>10, <1>11, <1>12, <1>13, <1>14 DEF IInv

\* The issuer grants on a refresh of p: r is used up if the issuer rotates, and
\* of all others that hold tokens none is to save r.
LEMMA IssuerStep ==
    ASSUME IInv, NEW p \in Proc, proc[p].phase = "refresh",
           IssuerGrants(proc[p].tokens.refresh)
    PROVE  /\ live' \subseteq 1..(grants + 1) /\ grants' = grants + 1
           /\ live' \subseteq Grant /\ grants' \in 0..MaxGrant
           /\ issuer # "rotating" => live' = live
           /\ issuer = "rotating" => /\ grants + 1 \in live'
                                     /\ \A q \in Savers : proc[q].tokens.refresh \in live'
           /\ \A q \in Proc : proc[q].phase \in Holding => proc[q].tokens.refresh # grants + 1
           /\ stored \in Tokens => stored.refresh # grants + 1
<1>1. /\ grants + 1 \in Grant /\ grants + 1 \in 0..MaxGrant
      /\ \A t \in Tokens : Held(t) => t.refresh # grants + 1 /\ t.refresh <= grants + 1
      /\ live \subseteq 1..(grants + 1)
  BY Grants DEF IssuerGrants
<1>2. live \subseteq Grant /\ grants \in Nat
  BY DEF IInv, TypeOK
<1>3. \A q \in Proc : proc[q].phase \in Holding => proc[q].tokens.refresh # grants + 1
  BY <1>1, Holders
<1>4. stored \in Tokens => stored.refresh # grants + 1
  BY <1>1, Holders
<1>5. /\ live' = IF issuer = "rotating"
                 THEN (live \ {proc[p].tokens.refresh}) \union {grants + 1} ELSE live
      /\ grants' = grants + 1
  BY DEF IssuerGrants
<1>6. live' \subseteq 1..(grants + 1) /\ live' \subseteq Grant
  <2>1. grants + 1 \in 1..(grants + 1)
    BY <1>2
  <2>2. live' \subseteq live \union {grants + 1}
    BY <1>5
  <2> QED
    BY <1>1, <1>2, <2>1, <2>2
<1>7. issuer = "rotating" => \A q \in Savers : proc[q].tokens.refresh \in live'
  <2>1. ASSUME issuer = "rotating", NEW q \in Savers
        PROVE  proc[q].tokens.refresh \in live /\ proc[q].tokens.refresh # proc[p].tokens.refresh
    BY <2>1 DEF IInv, SavedTokenUnused, RefreshingOthers, Savers
  <2> QED
    BY <1>5, <2>1
<1> QED
  BY <1>1, <1>3, <1>4, <1>5, <1>6, <1>7

\* A reply that is lost strands the session, which is a fault; the rest holds.
LEMMA StepRefreshReplyLost ==
    ASSUME IInv, NEW p \in Proc, RefreshReplyLost(p)
    PROVE  IInv'
<1> DEFINE o == proc[p].tokens
<1>1. /\ proc[p].phase = "refresh" /\ Become(p, Idle)
      /\ faults < MaxFaults /\ faults' = faults + 1
      /\ IssuerGrants(o.refresh)
      /\ hurt' = hurt \union {o.session}
      /\ UNCHANGED <<issuer, stored, writers, spoiled, apiKey, expiring, intent, undone>>
  BY DEF RefreshReplyLost, file, intention
<1>2. Idle \in Process /\ Idle.phase = "idle" /\ Idle.tokens = NoSession
  BY DEF Idle, At, Process, Phase
<1>3. /\ proc' \in [Proc -> Process]
      /\ proc'[p] = Idle
      /\ \A q \in Proc \ {p} : proc'[q] = proc[q]
      /\ overtaken' \subseteq Proc
      /\ \A q \in Proc \ {p} : q \in overtaken' <=> q \in overtaken
  BY <1>1, <1>2, Moved DEF IInv
<1>4. /\ live' \subseteq 1..(grants + 1) /\ grants' = grants + 1
      /\ live' \subseteq Grant /\ grants' \in 0..MaxGrant
      /\ issuer # "rotating" => live' = live
      /\ issuer = "rotating" => \A q \in Savers : proc[q].tokens.refresh \in live'
  BY <1>1, IssuerStep
<1>5. faults' \in 0..MaxFaults
  BY <1>1, SessionAssumption DEF IInv, TypeOK
<1>6. o \in Tokens /\ Held(o)
  BY <1>1, Holders, Phases
<1>7. ASSUME NEW u, Held(u)' PROVE Held(u)
  BY <1>1, <1>2, <1>3, <1>7, NoSessionAssumption DEF Held
<1>8. TypeOK'
  <2>1. hurt' \subseteq Grant
    BY <1>1, <1>6 DEF IInv, TypeOK, Tokens
  <2> QED
    BY <1>1, <1>3, <1>4, <1>5, <2>1 DEF IInv, TypeOK
<1>9. TokensInPhase'
  BY <1>2, <1>3, Phases DEF IInv, TokensInPhase
<1>10. GrantedOnly'
  <2>1. ASSUME NEW u \in Tokens, Held(u)' PROVE u.refresh <= grants'
    BY <1>1, <1>4, <1>7, <2>1, Grants DEF IssuerGrants
  <2> QED
    BY <1>4, <2>1 DEF GrantedOnly
<1>11. OneSession' /\ KeptAlive'
  BY <1>1, <1>4, <1>7 DEF IInv, OneSession, KeptAlive
<1>12. Savers' = Savers /\ p \notin Savers /\ p \notin writers
  BY <1>1, <1>2, <1>3, Phases DEF IInv, WritersWrite, Savers
<1>13. RefreshingOthers'
  BY <1>1, <1>2, <1>3, <1>12 DEF IInv, RefreshingOthers, Savers
<1>14. CurrentHolders'
  BY <1>1, <1>2, <1>3 DEF IInv, CurrentHolders
<1>15. WritersWrite' /\ OneWriter'
  BY <1>1, <1>3, <1>12 DEF IInv, TypeOK, WritersWrite, OneWriter
<1>16. SessionNotStranded'
  <2> SUFFICES ASSUME issuer # "refusing", ~spoiled, stored \in Tokens
               PROVE  \/ stored.refresh \in live'
                      \/ issuer = "rotating" /\ stored.session \in hurt'
                      \/ \E q \in Proc : proc'[q].phase = "save" /\ proc'[q].tokens.refresh \in live'
                                         /\ proc'[q].tokens.session = stored.session
    BY <1>1 DEF IInv, SessionNotStranded
  <2>1. CASE issuer = "keeping"
    BY <1>4, <2>1, Holders DEF IInv, KeptAlive
  <2>2. CASE issuer = "rotating" /\ stored.refresh = o.refresh
    BY <1>1, <1>6, <2>2, Holders DEF IInv, OneSession
  <2>3. CASE issuer = "rotating" /\ stored.refresh # o.refresh /\ stored.refresh \in live
    BY <1>1, <2>3 DEF IssuerGrants
  <2>4. CASE issuer = "rotating" /\ stored.refresh \notin live /\ stored.session \in hurt
    BY <1>1, <2>4
  <2>5. CASE issuer = "rotating" /\ stored.refresh \notin live /\ stored.session \notin hurt
    <3>1. PICK q \in Proc : proc[q].phase = "save" /\ proc[q].tokens.session = stored.session
      BY <2>5 DEF IInv, SessionNotStranded
    <3>2. q \in Savers /\ q # p
      BY <1>1, <3>1, Phases DEF Savers
    <3> QED
      BY <1>3, <1>4, <2>5, <3>1, <3>2
  <2> QED
    BY <2>1, <2>2, <2>3, <2>4, <2>5 DEF IInv, TypeOK, Issuer
<1>17. LastLoginWins'
  BY <1>1, <1>3, <1>12 DEF IInv, TypeOK, LastLoginWins
<1>18. SavedTokenUnused'
  BY <1>1, <1>3, <1>4, <1>12 DEF IInv, SavedTokenUnused, Savers
<1> QED
  BY <1>8, <1>9, <1>10, <1>11, <1>13, <1>14, <1>15, <1>16, <1>17, <1>18 DEF IInv

\* The granted tokens are new, or of an issuer that keeps its tokens the same
\* refresh token; the session in the file is in p's hands if p has used its token.
LEMMA StepRefresh ==
    ASSUME IInv, NEW p \in Proc, Refresh(p)
    PROVE  IInv'
<1> DEFINE o == proc[p].tokens
           n == grants + 1
           r == IF issuer = "rotating" THEN n ELSE o.refresh
           t == Granted(n, r, o.session)
           x == At("save", FALSE, t)
<1>1. /\ proc[p].phase = "refresh" /\ Become(p, x)
      /\ IssuerGrants(o.refresh)
      /\ UNCHANGED <<issuer, stored, writers, spoiled, apiKey, expiring, faults, intent, undone, hurt>>
  BY DEF Refresh, file, intention
<1>2. o \in Tokens /\ Held(o)
  BY <1>1, Holders, Phases
<1>3. n \in Grant /\ \A u \in Tokens : Held(u) => u.refresh # n /\ u.refresh <= n
  BY <1>1, Grants DEF IssuerGrants
<1>4. /\ t \in Tokens /\ t.refresh = r /\ t.session = o.session
      /\ t # NoSession
  BY <1>2, <1>3, NoSessionAssumption DEF Granted, Tokens
<1>5. x \in Process /\ x.phase = "save" /\ x.tokens = t
  <2>1. "save" \in Phase /\ t \in Tokens \union {NoSession}
    BY <1>4 DEF Phase, Saving
  <2> HIDE DEF t
  <2> QED
    BY <2>1, Fields
<1>6. /\ live' \subseteq 1..n /\ grants' = n
      /\ live' \subseteq Grant /\ grants' \in 0..MaxGrant
      /\ issuer # "rotating" => live' = live
      /\ issuer = "rotating" => /\ n \in live'
                                /\ \A q \in Savers : proc[q].tokens.refresh \in live'
      /\ \A q \in Proc : proc[q].phase \in Holding => proc[q].tokens.refresh # n
      /\ stored \in Tokens => stored.refresh # n
  BY <1>1, IssuerStep
<1>7. o.refresh \in live /\ (issuer = "rotating" => live \ {o.refresh} \subseteq live')
  BY <1>1 DEF IssuerGrants
<1>8. (issuer = "rotating" => r = n) /\ (issuer # "rotating" => r = o.refresh)
  OBVIOUS
<1> HIDE DEF n, r, t, x
<1>9. /\ proc' \in [Proc -> Process]
      /\ proc'[p] = x
      /\ \A q \in Proc \ {p} : proc'[q] = proc[q]
      /\ overtaken' = overtaken
  BY <1>1, <1>4, <1>5, Moved DEF IInv
<1>10. ASSUME NEW u, Held(u)' PROVE Held(u) \/ u = t
  BY <1>1, <1>5, <1>9, <1>10 DEF Held
<1>11. TypeOK'
  BY <1>1, <1>6, <1>9 DEF IInv, TypeOK
<1>12. TokensInPhase'
  BY <1>4, <1>5, <1>9, Phases DEF IInv, TokensInPhase
<1>13. GrantedOnly'
  <2>1. t.refresh <= n
    BY <1>2, <1>3, <1>4, <1>8 DEF Grant
  <2>2. ASSUME NEW u \in Tokens, Held(u)' PROVE u.refresh <= n
    BY <1>3, <1>10, <2>1, <2>2
  <2> QED
    BY <1>6, <2>2 DEF GrantedOnly
<1>14. OneSession'
  <2>1. ASSUME NEW u \in Tokens, Held(u), u.refresh = t.refresh PROVE u.session = t.session
    BY <1>2, <1>3, <1>4, <1>8, <2>1 DEF IInv, OneSession
  <2> QED
    BY <1>10, <2>1 DEF IInv, OneSession
<1>15. KeptAlive'
  BY <1>1, <1>4, <1>6, <1>7, <1>8, <1>10 DEF IInv, KeptAlive
<1>16. p \notin Savers /\ p \notin writers
  BY <1>1, Phases DEF IInv, WritersWrite, Savers
<1>17. Savers' = Savers \union {p}
  BY <1>5, <1>9, Phases DEF Savers
<1>18. \A q \in Savers : q \in Proc \ {p} /\ proc'[q] = proc[q] /\ proc[q].tokens.refresh # n
  BY <1>6, <1>9, <1>16, Phases DEF Savers
<1>19. RefreshingOthers'
  <2>1. \A q \in Proc : proc'[q].phase = "refresh" =>
            q # p /\ proc'[q] = proc[q] /\ proc[q].tokens.refresh # n
    BY <1>5, <1>6, <1>9, Phases
  <2> QED
    BY <1>1, <1>4, <1>5, <1>8, <1>9, <1>17, <1>18, <2>1 DEF IInv, RefreshingOthers
<1>20. CurrentHolders'
  BY <1>1, <1>4, <1>5, <1>9 DEF IInv, CurrentHolders
<1>21. WritersWrite' /\ OneWriter'
  BY <1>1, <1>9, <1>16 DEF IInv, TypeOK, WritersWrite, OneWriter
<1>22. SessionNotStranded'
  <2> SUFFICES ASSUME issuer # "refusing", ~spoiled, stored \in Tokens
               PROVE  \/ stored.refresh \in live'
                      \/ issuer = "rotating" /\ stored.session \in hurt
                      \/ \E q \in Proc : proc'[q].phase = "save" /\ proc'[q].tokens.refresh \in live'
                                         /\ proc'[q].tokens.session = stored.session
    BY <1>1 DEF IInv, SessionNotStranded
  <2>1. CASE issuer = "keeping"
    BY <1>6, <2>1, Holders DEF IInv, KeptAlive
  <2>2. CASE issuer = "rotating" /\ stored.refresh = o.refresh
    <3>1. stored.session = o.session
      BY <1>2, <2>2, Holders DEF IInv, OneSession
    <3> QED
      BY <1>4, <1>5, <1>6, <1>8, <1>9, <2>2, <3>1
  <2>3. CASE issuer = "rotating" /\ stored.refresh # o.refresh /\ stored.refresh \in live
    BY <1>7, <2>3
  <2>4. CASE issuer = "rotating" /\ stored.refresh \notin live /\ stored.session \notin hurt
    <3>1. PICK q \in Proc : proc[q].phase = "save" /\ proc[q].tokens.session = stored.session
      BY <2>4 DEF IInv, SessionNotStranded
    <3>2. q \in Savers
      BY <3>1, Phases DEF Savers
    <3> QED
      BY <1>6, <1>18, <2>4, <3>1, <3>2
  <2> QED
    BY <2>1, <2>2, <2>3, <2>4 DEF IInv, TypeOK, Issuer
<1>23. LastLoginWins'
  BY <1>1, <1>9, <1>16 DEF IInv, TypeOK, LastLoginWins
<1>24. SavedTokenUnused'
  BY <1>1, <1>4, <1>5, <1>6, <1>8, <1>9, <1>17, <1>18 DEF IInv, SavedTokenUnused, Savers
<1> QED
  BY <1>11, <1>12, <1>13, <1>14, <1>15, <1>19, <1>20, <1>21, <1>22, <1>23, <1>24 DEF IInv

\* A process ends by a kill or a failing save: a fault that is written down.
LEMMA StepEnds ==
    ASSUME IInv, NEW p \in Proc, Ends(p)
    PROVE  IInv'
<1>1. /\ faults < MaxFaults /\ faults' = faults + 1
      /\ hurt' = IF proc[p].phase \in Saving \union Writing
                 THEN hurt \union {proc[p].tokens.session} ELSE hurt
      /\ spoiled' = (spoiled \/ p \in writers)
      /\ writers' = writers \ {p}
      /\ Become(p, Idle)
      /\ UNCHANGED <<issuer, stored, apiKey, live, expiring, grants, intent, undone>>
  BY DEF Ends, intention
<1>2. Idle \in Process /\ Idle.phase \notin Holding /\ Idle.tokens = NoSession
  BY DEF Idle, At, Process, Phase, Holding, Saving, Writing
<1>3. faults' \in 0..MaxFaults /\ apiKey' \in BOOLEAN
  BY <1>1, SessionAssumption DEF IInv, TypeOK
<1>4. proc[p].phase \in Saving \union Writing => proc[p].tokens.session \in Grant
  BY Holders, Phases DEF Tokens
<1>5. hurt \subseteq hurt' /\ hurt' \subseteq Grant
  BY <1>1, <1>4 DEF IInv, TypeOK
<1>6. proc[p].phase \in Saving \union Writing => proc[p].tokens.session \in hurt'
  BY <1>1
<1> QED
  BY <1>1, <1>2, <1>3, <1>5, <1>6, LetGo

\* Processes without tokens.
Empty == {At(phase, hasKey, NoSession) : phase \in {"idle", "ready", "call"}, hasKey \in BOOLEAN}

\* A process that lets go of its tokens becomes one of them.
LEMMA EmptyAt ==
    ASSUME NEW hasKey \in BOOLEAN
    PROVE  /\ At("idle", hasKey, NoSession) \in Empty
           /\ At("ready", hasKey, NoSession) \in Empty
           /\ At("call", hasKey, NoSession) \in Empty
BY DEF Empty

\* They are processes without tokens, and an idle one is among them.
LEMMA EmptyHanded ==
    /\ \A x \in Empty : x \in Process /\ x.phase \notin Holding /\ x.tokens = NoSession
    /\ Idle \in Empty
<1>1. \A phase \in {"idle", "ready", "call"} : phase \in Phase /\ phase \notin Holding
  BY DEF Phase, Holding, Saving, Writing
<1>2. NoSession \in Tokens \union {NoSession}
  OBVIOUS
<1>3. ASSUME NEW x \in Empty PROVE x \in Process /\ x.phase \notin Holding /\ x.tokens = NoSession
  <2>1. PICK phase \in {"idle", "ready", "call"}, hasKey \in BOOLEAN : x = At(phase, hasKey, NoSession)
    BY DEF Empty
  <2> QED
    BY <1>1, <1>2, <2>1, Fields
<1>4. Idle \in Empty
  BY EmptyAt DEF Idle
<1> QED
  BY <1>3, <1>4

\* Every step preserves the invariant.
LEMMA NextIInv == IInv /\ [Next]_vars => IInv'
<1> SUFFICES ASSUME IInv, [Next]_vars PROVE IInv'
  OBVIOUS
<1>1. /\ apiKey \in BOOLEAN /\ proc \in [Proc -> Process] /\ writers \subseteq Proc
      /\ faults \in 0..MaxFaults /\ MaxFaults \in Nat /\ expiring \subseteq Grant
      /\ spoiled \in BOOLEAN /\ hurt \subseteq Grant
      /\ \A q \in Proc : proc[q].hasKey \in BOOLEAN
  BY SessionAssumption DEF IInv, TypeOK, Process
\* The process had nothing to save and ends up without tokens, and nothing that
\* the invariant reads changes.
<1>2. ASSUME NEW p \in Proc, NEW x \in Empty, Become(p, x), proc[p].phase \notin Saving \union Writing,
             UNCHANGED <<issuer, file, live, expiring, grants, faults, intention, hurt>>,
             apiKey' \in BOOLEAN
      PROVE  IInv'
  <2>1. p \notin writers
    BY <1>2 DEF IInv, WritersWrite
  <2>2. writers' = writers \ {p} /\ spoiled' = (spoiled \/ p \in writers)
    BY <1>1, <1>2, <2>1 DEF file
  <2>3. UNCHANGED <<issuer, stored, live, grants, intent, undone, expiring>>
    BY <1>2 DEF file, intention
  <2>4. hurt \subseteq hurt' /\ hurt' \subseteq Grant /\ faults' \in 0..MaxFaults
    BY <1>1, <1>2
  <2> QED
    BY <1>2, <2>2, <2>3, <2>4, EmptyHanded, LetGo
\* Nothing changes but what the invariant does not relate to anything.
<1>3. ASSUME UNCHANGED <<issuer, file, live, grants, proc, faults, intention, overtaken, hurt>>,
             apiKey' \in BOOLEAN, expiring' \subseteq Grant
      PROVE  IInv'
  BY <1>3 DEF file, intention, IInv, TypeOK, TokensInPhase, Held, GrantedOnly, OneSession, KeptAlive,
              Savers, RefreshingOthers, CurrentHolders, WritersWrite, OneWriter,
              SessionNotStranded, LastLoginWins, SavedTokenUnused
<1>4. ASSUME NEW p \in Proc, LogoutKey(p) PROVE IInv'
  <2>1. /\ proc[p].phase = "deleteKey" /\ Become(p, Idle) /\ apiKey' \in BOOLEAN
        /\ UNCHANGED <<issuer, file, live, expiring, grants, faults, intention, hurt>>
    BY <1>4 DEF LogoutKey
  <2> QED
    BY <1>2, <2>1, EmptyHanded, Phases
<1>5. ASSUME NEW p \in Proc, SetKey(p) \/ ClearKey(p) PROVE IInv'
  BY <1>1, <1>3, <1>5 DEF SetKey, ClearKey
<1>6. ASSUME NEW p \in Proc, Open(p) PROVE IInv'
  <2>1. At("ready", apiKey, NoSession) \in Empty
    BY <1>1, EmptyAt
  <2>2. /\ proc[p].phase = "idle" /\ Become(p, At("ready", apiKey, NoSession)) /\ apiKey' \in BOOLEAN
        /\ UNCHANGED <<issuer, file, live, expiring, grants, faults, intention, hurt>>
    BY <1>1, <1>6 DEF Open
  <2> QED
    BY <1>2, <2>1, <2>2, Phases
<1>7. ASSUME NEW p \in Proc, Bearer(p) PROVE IInv'
  <2>1. At("call", TRUE, NoSession) \in Empty /\ At("call", FALSE, NoSession) \in Empty
    BY EmptyAt
  <2>2. \/ \E x \in Empty : Become(p, x)
        \/ stored \in Tokens /\ Become(p, At("refresh", FALSE, stored))
    BY <1>7, <2>1, EmptyHanded DEF Bearer
  <2>3. /\ proc[p].phase = "ready"
        /\ UNCHANGED <<issuer, file, apiKey, live, expiring, grants, faults, intention, hurt>>
    BY <1>7 DEF Bearer
  <2>4. proc[p].phase \notin Saving \union Writing /\ apiKey' \in BOOLEAN
    BY <1>1, <2>3, Phases
  <2>5. CASE \E x \in Empty : Become(p, x)
    BY <1>2, <2>3, <2>4, <2>5
  <2>6. CASE stored \in Tokens /\ Become(p, At("refresh", FALSE, stored))
    BY <2>3, <2>6, TakeTokens DEF intention
  <2> QED
    BY <2>2, <2>5, <2>6
<1>8. ASSUME NEW p \in Proc, RefreshFails(p) PROVE IInv'
  <2>1. /\ proc[p].phase = "refresh" /\ Become(p, Idle) /\ apiKey' \in BOOLEAN
        /\ UNCHANGED <<issuer, file, live, expiring, grants, faults, intention, hurt>>
    BY <1>1, <1>8 DEF RefreshFails
  <2> QED
    BY <1>2, <2>1, EmptyHanded, Phases
<1>9. ASSUME NEW p \in Proc, Call(p) PROVE IInv'
  <2>1. At("ready", proc[p].hasKey, NoSession) \in Empty
    BY <1>1, EmptyAt
  <2>2. \E x \in Empty : Become(p, x)
    BY <1>9, <2>1, EmptyHanded DEF Call
  <2>3. /\ proc[p].phase = "call" /\ apiKey' \in BOOLEAN
        /\ UNCHANGED <<issuer, file, live, expiring, grants, faults, intention, hurt>>
    BY <1>1, <1>9 DEF Call
  <2> QED
    BY <1>2, <2>2, <2>3, Phases
<1>10. ASSUME NEW p \in Proc, LoginWrites(p) PROVE IInv'
  <2>1. proc[p].phase \in Writing /\ WriteFile(p) /\ Become(p, Idle)
    BY <1>10, Phases DEF LoginWrites
  <2>2. UNCHANGED <<issuer, apiKey, live, expiring, grants, faults, hurt>>
    BY <1>10 DEF LoginWrites
  <2> QED
    BY <2>1, <2>2, EmptyHanded, Writes
<1>11. ASSUME NEW p \in Proc, RefreshWrites(p) PROVE IInv'
  <2>1. At("call", FALSE, NoSession) \in Empty
    BY EmptyAt
  <2>2. /\ proc[p].phase \in Writing /\ WriteFile(p) /\ Become(p, At("call", FALSE, NoSession))
    BY <1>11, Phases DEF RefreshWrites
  <2>3. UNCHANGED <<issuer, apiKey, live, expiring, grants, faults, hurt>>
    BY <1>11 DEF RefreshWrites
  <2> QED
    BY <2>1, <2>2, <2>3, EmptyHanded, Writes
<1>12. ASSUME NEW p \in Proc, SaveFails(p) \/ Kill(p) PROVE IInv'
  BY <1>12, StepEnds DEF SaveFails, Kill
<1>13. ASSUME NEW n \in Grant, Expire(n) PROVE IInv'
  BY <1>1, <1>3, <1>13 DEF Expire
<1>14. ASSUME UNCHANGED vars PROVE IInv'
  BY <1>1, <1>3, <1>14 DEF vars
<1> QED
  BY <1>4, <1>5, <1>6, <1>7, <1>8, <1>9, <1>10, <1>11, <1>12, <1>13, <1>14, StepLoginGrant,
     StepLoginOpens, StepLogoutTokens, StepRefresh, StepRefreshReplyLost, StepRefreshOpens DEF Next

-----------------------------------------------------------------------------
\* Everything the invariant says holds in every reachable state.
THEOREM Invariance == Spec => []IInv
BY InitIInv, NextIInv, PTL DEF Spec

\* The stored tokens, the processes and the issuer's records have their types
\* in every state.
THEOREM TypeCorrect == Spec => []TypeOK
<1>1. IInv => TypeOK
  BY DEF IInv
<1> QED
  BY <1>1, Invariance, PTL

\* Of an issuer that accepts refresh tokens, no interleaving of commands, logins
\* and logouts leaves a session in the file that cannot be refreshed, unless a
\* process was killed, its save failed or a reply was lost, nor a file that
\* cannot be read, unless saves overlapped or one was cut short
\* (api.rs:303-322, token_store.rs:50).
THEOREM SessionNotStrandedHolds == Spec => []SessionNotStranded
<1>1. IInv => SessionNotStranded
  BY DEF IInv
<1> QED
  BY <1>1, Invariance, PTL

\* The session in the file is the one of the last login, and none after a
\* logout, until a command that loaded older tokens saves them.
THEOREM LastLoginWinsHolds == Spec => []LastLoginWins
<1>1. IInv => LastLoginWins
  BY DEF IInv
<1> QED
  BY <1>1, Invariance, PTL

\* Of a rotating issuer, no token is to be saved that has been used, that is in
\* the file already or that another process is to save.
THEOREM SavedTokenUnusedHolds == Spec => []SavedTokenUnused
<1>1. IInv => SavedTokenUnused
  BY DEF IInv
<1> QED
  BY <1>1, Invariance, PTL
=============================================================================
