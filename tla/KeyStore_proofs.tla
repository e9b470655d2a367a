-------------------------- MODULE KeyStore_proofs --------------------------
(***************************************************************************)
(* Proofs about KeyStore: for any number of processes, any keys and any    *)
(* number of kills.                                                        *)
(***************************************************************************)
EXTENDS KeyStore, TLAPS

\* At most one process is about to write the key file, and until it has the
\* file is undecodable.
WriterAlone ==
    \A p \in Proc : proc[p].phase = "write" =>
        /\ file = "broken"
        /\ \A q \in Proc \ {p} : proc[q].phase # "write"

\* A process that seals or stores has a key.
HasKey ==
    \A p \in Proc :
        proc[p].phase \in {"truncate", "seal", "ensure"} => proc[p].key # NoKey

\* OneKey, stated user by user.
KeysAgree ==
    /\ keyring \in {NoKey, file}
    /\ \A s \in Secret : sealed[s] \in Unsealed \union {file}
    /\ \A p \in Proc : proc[p].key \in {NoKey, file} /\ proc[p].own \in {NoKey, file}

IInv == TypeOK /\ WriterAlone /\ HasKey /\ KeysAgree /\ BrokenOnlyInFlight

-----------------------------------------------------------------------------
\* The initial state satisfies the invariant.
LEMMA InitIInv == Init => IInv
BY KeyAssumption
   DEF Init, IInv, TypeOK, WriterAlone, HasKey, KeysAgree, BrokenOnlyInFlight,
       Process, Command, Phase, LoadPhase, Secret, Unsealed, Idle, At

\* The fields of a process that has just been described.
LEMMA Fields ==
    ASSUME NEW cmd \in Command, NEW phase \in Phase,
           NEW k \in Key \union {NoKey}, NEW own \in Key \union {NoKey}
    PROVE  /\ At(cmd, phase, k, own) \in Process
           /\ At(cmd, phase, k, own).cmd = cmd
           /\ At(cmd, phase, k, own).phase = phase
           /\ At(cmd, phase, k, own).key = k
           /\ At(cmd, phase, k, own).own = own
BY DEF At, Process

\* A process that moves on changes its own slot only, and keeps the invariant
\* when what it becomes is consistent with the key file.
LEMMA SlotStep ==
    ASSUME TypeOK, HasKey, KeysAgree, NEW p \in Proc, NEW x \in Process,
           Become(p, x), x.phase # "write",
           x.key \in {NoKey, file}, x.own \in {NoKey, file},
           x.phase \in {"truncate", "seal", "ensure"} => x.key # NoKey
    PROVE  /\ proc' \in [Proc -> Process]
           /\ proc'[p] = x
           /\ \A q \in Proc \ {p} : proc'[q] = proc[q]
           /\ HasKey'
           /\ \A q \in Proc : proc'[q].key \in {NoKey, file}
                              /\ proc'[q].own \in {NoKey, file}
<1>1. /\ proc' \in [Proc -> Process]
      /\ proc'[p] = x
      /\ \A q \in Proc \ {p} : proc'[q] = proc[q]
  BY DEF Become, TypeOK
<1>2. HasKey'
  BY <1>1 DEF HasKey
<1> QED
  BY <1>1, <1>2 DEF KeysAgree

\* A step that moves process p on and leaves the files and the keyring alone.
LEMMA PlainStep ==
    ASSUME IInv, NEW p \in Proc, NEW x \in Process, Become(p, x),
           UNCHANGED <<keyring, file, sealed>>,
           crashes' \in 0..MaxCrashes, crashes' >= crashes,
           proc[p].phase = "write" => crashes' > 0,
           x.phase # "write", x.key \in {NoKey, file}, x.own \in {NoKey, file},
           x.phase \in {"truncate", "seal", "ensure"} => x.key # NoKey
    PROVE  IInv'
<1>1. /\ proc' \in [Proc -> Process]
      /\ proc'[p] = x
      /\ \A q \in Proc \ {p} : proc'[q] = proc[q]
      /\ HasKey'
      /\ \A q \in Proc : proc'[q].key \in {NoKey, file}
                         /\ proc'[q].own \in {NoKey, file}
  BY SlotStep DEF IInv
<1>2. TypeOK'
  BY <1>1 DEF IInv, TypeOK
<1>3. WriterAlone'
  BY <1>1 DEF IInv, WriterAlone
<1>4. KeysAgree'
  BY <1>1 DEF IInv, KeysAgree
<1>5. BrokenOnlyInFlight'
  BY <1>1, KeyAssumption DEF IInv, BrokenOnlyInFlight, TypeOK
<1> QED
  BY <1>1, <1>2, <1>3, <1>4, <1>5 DEF IInv

\* What Goto and Loaded make of a process.
LEMMA GotoStep ==
    ASSUME IInv, NEW p \in Proc, NEW phase \in Phase, Goto(p, phase)
    PROVE  \E x \in Process :
              /\ Become(p, x) /\ x.phase = phase
              /\ x.key = proc[p].key /\ x.own = proc[p].own
              /\ x.key \in {NoKey, file} /\ x.own \in {NoKey, file}
<1> DEFINE x == [proc[p] EXCEPT !.phase = phase]
<1>1. /\ x \in Process /\ x.phase = phase
      /\ x.key = proc[p].key /\ x.own = proc[p].own
  BY DEF IInv, TypeOK, Process
<1>2. Become(p, x)
  BY DEF Goto
<1> HIDE DEF x
<1> QED
  BY <1>1, <1>2 DEF IInv, KeysAgree

\* A loaded key becomes the process's key, or the one it keeps as own.
LEMMA LoadedStep ==
    ASSUME IInv, NEW p \in Proc, NEW k \in Key, Loaded(p, k)
    PROVE  \E x \in Process :
              /\ Become(p, x) /\ x.phase \in {"truncate", "keyring", "openApiKey"}
              /\ x.key \in {NoKey, k} /\ x.own \in {NoKey, file, k}
              /\ x.phase = "truncate" => x.key = k
<1>1. proc[p].cmd \in Command /\ proc[p].own \in Key \union {NoKey}
  BY DEF IInv, TypeOK, Process
<1>2. {"truncate", "keyring", "openApiKey"} \subseteq Phase /\ "run" \in Command
  BY DEF Phase, LoadPhase, Command
<1>3. proc[p].own \in {NoKey, file}
  BY DEF IInv, KeysAgree
<1>4. CASE proc[p].cmd # "run"
  BY <1>1, <1>2, <1>3, <1>4, Fields DEF Loaded
<1>5. CASE proc[p].cmd = "run" /\ proc[p].own = NoKey
  BY <1>1, <1>2, <1>5, Fields DEF Loaded
<1>6. CASE proc[p].cmd = "run" /\ proc[p].own # NoKey
  BY <1>1, <1>2, <1>3, <1>6, Fields DEF Loaded
<1> QED
  BY <1>4, <1>5, <1>6

\* While the key file holds no key, nobody has one.
LEMMA NoKeyYet ==
    ASSUME IInv, file \notin Key
    PROVE  /\ keyring = NoKey
           /\ \A s \in Secret : sealed[s] \in Unsealed
           /\ \A p \in Proc : proc[p].key = NoKey /\ proc[p].own = NoKey
<1>1. keyring = NoKey
  BY DEF IInv, TypeOK, KeysAgree
<1>2. ASSUME NEW s \in Secret PROVE sealed[s] \in Unsealed
  BY DEF IInv, TypeOK, KeysAgree
<1>3. ASSUME NEW p \in Proc
      PROVE  proc[p].key = NoKey /\ proc[p].own = NoKey
  BY DEF IInv, TypeOK, KeysAgree, Process
<1> QED
  BY <1>1, <1>2, <1>3

\* Loading a key that the file holds keeps the invariant.
LEMMA LoadFromFile ==
    ASSUME IInv, NEW p \in Proc, Loaded(p, file), file \in Key,
           proc[p].phase # "write",
           UNCHANGED <<keyring, file, sealed, crashes>>
    PROVE  IInv'
<1>1. PICK x \in Process :
        /\ Become(p, x) /\ x.phase \in {"truncate", "keyring", "openApiKey"}
        /\ x.key \in {NoKey, file} /\ x.own \in {NoKey, file}
        /\ x.phase = "truncate" => x.key = file
  BY LoadedStep
<1>2. crashes' \in 0..MaxCrashes /\ crashes' >= crashes
  BY KeyAssumption DEF IInv, TypeOK
<1> QED
  BY <1>1, <1>2, PlainStep, KeyAssumption

\* Moving on without a key that was not there before keeps the invariant.
LEMMA GotoPlain ==
    ASSUME IInv, NEW p \in Proc, NEW phase \in Phase, Goto(p, phase),
           UNCHANGED <<keyring, file, sealed>>,
           crashes' \in 0..MaxCrashes, crashes' >= crashes,
           proc[p].phase = "write" => crashes' > 0,
           phase # "write",
           phase \in {"truncate", "seal", "ensure"} => proc[p].key # NoKey
    PROVE  IInv'
<1>1. PICK x \in Process :
        /\ Become(p, x) /\ x.phase = phase /\ x.key = proc[p].key
        /\ x.key \in {NoKey, file} /\ x.own \in {NoKey, file}
  BY GotoStep
<1> QED
  BY <1>1, PlainStep

\* Ending a command keeps the invariant.
LEMMA EndPlain ==
    ASSUME IInv, NEW p \in Proc, Become(p, Idle),
           UNCHANGED <<keyring, file, sealed>>,
           crashes' \in 0..MaxCrashes, crashes' >= crashes,
           proc[p].phase = "write" => crashes' > 0
    PROVE  IInv'
<1>1. /\ Idle \in Process /\ Idle.phase = "idle"
      /\ Idle.key = NoKey /\ Idle.own = NoKey
  BY DEF Idle, At, Process, Command, Phase
<1> QED
  BY <1>1, PlainStep

\* The creator of the key file is alone, and nobody has a key yet.
LEMMA CreateStep ==
    ASSUME IInv, NEW p \in Proc, CreateKeyFile(p)
    PROVE  IInv'
<1>0. /\ proc[p].phase = "create"
      /\ UNCHANGED <<keyring, sealed, crashes>>
      /\ {"open", "write"} \subseteq Phase
      /\ crashes \in 0..MaxCrashes /\ crashes \in Nat
  BY KeyAssumption DEF CreateKeyFile, Phase, LoadPhase, IInv, TypeOK
<1>1. CASE file # "none"
  <2> DEFINE x == [proc[p] EXCEPT !.phase = "open", !.lost = TRUE]
  <2>1. /\ x \in Process /\ x.phase = "open"
        /\ x.key = proc[p].key /\ x.own = proc[p].own
    BY <1>0 DEF IInv, TypeOK, Process
  <2>2. Become(p, x) /\ UNCHANGED file
    BY <1>1 DEF CreateKeyFile
  <2> HIDE DEF x
  <2> QED
    BY <1>0, <2>1, <2>2, PlainStep DEF IInv, KeysAgree
<1>2. CASE file = "none"
  <2>1. file' = "broken" /\ Goto(p, "write")
    BY <1>2 DEF CreateKeyFile
  <2>2. PICK x \in Process :
          /\ Become(p, x) /\ x.phase = "write"
          /\ x.key = proc[p].key /\ x.own = proc[p].own
    BY <1>0, <2>1, GotoStep
  <2>3. /\ proc' \in [Proc -> Process]
        /\ proc'[p] = x
        /\ \A q \in Proc \ {p} : proc'[q] = proc[q]
    BY <2>2 DEF Become, IInv, TypeOK
  <2>4. file \notin Key
    BY <1>2, KeyAssumption
  <2>5. \A q \in Proc : proc[q].phase # "write"
    BY <1>2 DEF IInv, WriterAlone
  <2>6. TypeOK' /\ HasKey' /\ BrokenOnlyInFlight'
    BY <1>0, <2>1, <2>2, <2>3
       DEF IInv, TypeOK, HasKey, BrokenOnlyInFlight
  <2>7. WriterAlone'
    BY <2>1, <2>2, <2>3, <2>5 DEF WriterAlone
  <2>8. KeysAgree'
    BY <1>0, <2>2, <2>3, <2>4, NoKeyYet DEF KeysAgree
  <2> QED
    BY <2>6, <2>7, <2>8 DEF IInv
<1> QED
  BY <1>1, <1>2

\* The first key appears in the file and with its creator.
LEMMA WriteStep ==
    ASSUME IInv, NEW p \in Proc, NEW k \in Key, WriteKeyFile(p, k)
    PROVE  IInv'
<1>1. /\ file' = k /\ UNCHANGED <<keyring, sealed, crashes>>
      /\ Loaded(p, k)
      /\ file = "broken"
      /\ \A q \in Proc \ {p} : proc[q].phase # "write"
  BY DEF WriteKeyFile, IInv, WriterAlone
<1>2. file \notin Key /\ file' # "broken"
  BY <1>1, KeyAssumption
<1>3. PICK x \in Process :
        /\ Become(p, x) /\ x.phase \in {"truncate", "keyring", "openApiKey"}
        /\ x.key \in {NoKey, k} /\ x.own \in {NoKey, file, k}
        /\ x.phase = "truncate" => x.key = k
  BY <1>1, LoadedStep
<1>4. x.own \in {NoKey, k}
  BY <1>2, <1>3 DEF Process
<1>5. /\ proc' \in [Proc -> Process]
      /\ proc'[p] = x
      /\ \A q \in Proc \ {p} : proc'[q] = proc[q]
  BY <1>3 DEF Become, IInv, TypeOK
<1>6. TypeOK'
  BY <1>1, <1>5 DEF IInv, TypeOK
<1>7. HasKey' /\ WriterAlone'
  BY <1>1, <1>3, <1>5, KeyAssumption DEF IInv, HasKey, WriterAlone
<1>8. KeysAgree'
  BY <1>1, <1>2, <1>3, <1>4, <1>5, NoKeyYet DEF KeysAgree
<1>9. BrokenOnlyInFlight'
  BY <1>2 DEF BrokenOnlyInFlight
<1> QED
  BY <1>6, <1>7, <1>8, <1>9 DEF IInv

\* Sealing a secret, or blanking it, changes that secret only.
LEMMA SealStep ==
    ASSUME IInv, NEW p \in Proc, Truncate(p) \/ Seal(p)
    PROVE  IInv'
<1>1. /\ proc[p].phase \in {"truncate", "seal"}
      /\ UNCHANGED <<keyring, file, crashes>>
      /\ proc[p].key \in Key /\ proc[p].key = file
  BY DEF Truncate, Seal, IInv, HasKey, KeysAgree, TypeOK, Process
<1>2. PICK x \in Process :
        /\ Become(p, x) /\ x.phase \in {"seal", "ensure", "idle"}
        /\ x.key \in {NoKey, file} /\ x.own \in {NoKey, file}
        /\ x.phase # "idle" => x.key = proc[p].key
  <2>1. {"seal", "ensure"} \subseteq Phase
    BY DEF Phase
  <2>2. /\ Idle \in Process /\ Idle.phase = "idle"
        /\ Idle.key = NoKey /\ Idle.own = NoKey
    BY DEF Idle, At, Process, Command, Phase
  <2>3. CASE Goto(p, "seal") \/ Goto(p, "ensure")
    BY <2>1, <2>3, GotoStep
  <2>4. CASE Become(p, Idle)
    BY <2>2, <2>4
  <2> QED
    BY <2>3, <2>4 DEF Truncate, Seal
<1>3. \A s \in Secret : sealed'[s] \in Unsealed \union {file}
  BY <1>1 DEF Truncate, Seal, IInv, KeysAgree, TypeOK, Unsealed
<1>4. sealed' \in [Secret -> Key \union Unsealed]
  BY <1>1 DEF Truncate, Seal, IInv, TypeOK, Unsealed
<1>5. /\ proc' \in [Proc -> Process]
      /\ proc'[p] = x
      /\ \A q \in Proc \ {p} : proc'[q] = proc[q]
      /\ HasKey'
      /\ \A q \in Proc : proc'[q].key \in {NoKey, file}
                         /\ proc'[q].own \in {NoKey, file}
  BY <1>1, <1>2, SlotStep, KeyAssumption DEF IInv
<1>6. TypeOK' /\ KeysAgree'
  BY <1>1, <1>3, <1>4, <1>5 DEF IInv, TypeOK, KeysAgree
<1>7. WriterAlone' /\ BrokenOnlyInFlight'
  BY <1>1, <1>2, <1>5 DEF IInv, WriterAlone, BrokenOnlyInFlight
<1> QED
  BY <1>5, <1>6, <1>7 DEF IInv

\* The key a login copies into the keyring is the file's.
LEMMA EnsureStep ==
    ASSUME IInv, NEW p \in Proc, EnsureKeyStored(p)
    PROVE  IInv'
<1>1. /\ keyring' \in {file, keyring}
      /\ UNCHANGED <<file, sealed, crashes>>
      /\ proc[p].key = file /\ file \in Key
      /\ Become(p, Idle)
  BY DEF EnsureKeyStored, IInv, HasKey, KeysAgree, TypeOK, Process
<1>2. /\ Idle \in Process /\ Idle.phase = "idle"
      /\ Idle.key = NoKey /\ Idle.own = NoKey
  BY DEF Idle, At, Process, Command, Phase
<1>3. /\ proc' \in [Proc -> Process]
      /\ proc'[p] = Idle
      /\ \A q \in Proc \ {p} : proc'[q] = proc[q]
      /\ HasKey'
      /\ \A q \in Proc : proc'[q].key \in {NoKey, file}
                         /\ proc'[q].own \in {NoKey, file}
  BY <1>1, <1>2, SlotStep DEF IInv
<1>4. TypeOK' /\ KeysAgree'
  BY <1>1, <1>3 DEF IInv, TypeOK, KeysAgree
<1>5. WriterAlone'
  BY <1>1, <1>2, <1>3 DEF IInv, WriterAlone
<1>6. BrokenOnlyInFlight'
  BY <1>1, KeyAssumption DEF BrokenOnlyInFlight
<1> QED
  BY <1>3, <1>4, <1>5, <1>6 DEF IInv

\* The actions that touch neither the files nor the keyring.
LEMMA QuietStep ==
    ASSUME IInv, NEW p \in Proc,
           \/ \E cmd \in Command : Start(p, cmd)
           \/ KeyringHit(p) \/ KeyringMiss(p) \/ OpenKeyFile(p)
           \/ OpenApiKey(p) \/ OpenTokens(p) \/ GiveUp(p)
           \/ WriteKeyFileFails(p) \/ Kill(p)
    PROVE  IInv'
<1>0. /\ {"open", "create", "openTokens", "loadFailed", "keyring"} \subseteq Phase
      /\ crashes \in Nat /\ crashes \in 0..MaxCrashes /\ MaxCrashes \in Nat
  BY KeyAssumption DEF Phase, LoadPhase, IInv, TypeOK
<1>1. ASSUME NEW cmd \in Command, Start(p, cmd)
      PROVE  IInv'
  <2> DEFINE x == At(cmd, "keyring", NoKey, NoKey)
  <2>1. x \in Process /\ x.phase = "keyring" /\ x.key = NoKey /\ x.own = NoKey
    BY <1>0, Fields
  <2> HIDE DEF x
  <2> QED
    BY <1>0, <1>1, <2>1, PlainStep DEF Start, x
<1>2. CASE KeyringHit(p)
  <2>1. keyring = file /\ file \in Key
    BY <1>2 DEF KeyringHit, IInv, TypeOK, KeysAgree
  <2> QED
    BY <1>2, <2>1, LoadFromFile DEF KeyringHit
<1>3. CASE KeyringMiss(p)
  BY <1>0, <1>3, GotoPlain DEF KeyringMiss
<1>4. CASE OpenKeyFile(p)
  <2>1. CASE file = "none"
    BY <1>0, <1>4, <2>1, GotoPlain DEF OpenKeyFile
  <2>2. CASE file = "broken"
    BY <1>0, <1>4, <2>2, GotoPlain DEF OpenKeyFile, LoadFails
  <2>3. CASE file \in Key
    BY <1>4, <2>3, LoadFromFile, KeyAssumption DEF OpenKeyFile
  <2> QED
    BY <2>1, <2>2, <2>3 DEF IInv, TypeOK
<1>5. CASE OpenApiKey(p)
  BY <1>0, <1>5, GotoPlain, EndPlain DEF OpenApiKey
<1>6. CASE OpenTokens(p) \/ GiveUp(p)
  <2>1. CASE Become(p, Idle)
    BY <1>0, <1>6, <2>1, EndPlain DEF OpenTokens, GiveUp
  <2>2. CASE ~Become(p, Idle)
    <3> DEFINE k == proc[p].own
               x == At("run", "truncate", k, k)
    <3>1. /\ Become(p, x) /\ sealed["tokens"] = k
          /\ proc[p].phase = "openTokens"
          /\ UNCHANGED <<keyring, file, sealed, crashes>>
      BY <1>6, <2>2 DEF OpenTokens, GiveUp
    <3>2. k \in Key \union {NoKey} /\ k \in {NoKey, file}
      BY DEF IInv, TypeOK, KeysAgree, Process
    <3>3. k # NoKey
      BY <3>1, KeyAssumption DEF IInv, TypeOK, Secret, Unsealed
    <3> HIDE DEF k
    <3>4. "run" \in Command /\ "truncate" \in Phase
      BY DEF Command, Phase
    <3>5. x \in Process /\ x.phase = "truncate" /\ x.key = k /\ x.own = k
      BY <3>2, <3>4, Fields
    <3> HIDE DEF x
    <3> QED
      BY <1>0, <3>1, <3>2, <3>3, <3>5, PlainStep
  <2> QED
    BY <2>1, <2>2
<1>7. CASE WriteKeyFileFails(p)
  BY <1>0, <1>7, GotoPlain DEF WriteKeyFileFails, LoadFails
<1>8. CASE Kill(p)
  BY <1>0, <1>8, EndPlain DEF Kill
<1> QED
  BY <1>1, <1>2, <1>3, <1>4, <1>5, <1>6, <1>7, <1>8

-----------------------------------------------------------------------------
\* The invariant is inductive.
THEOREM Invariance == Spec => []IInv
<1>1. ASSUME IInv, [Next]_vars
      PROVE  IInv'
  <2>1. CASE UNCHANGED vars
    BY <1>1, <2>1
       DEF vars, IInv, TypeOK, WriterAlone, HasKey, KeysAgree, BrokenOnlyInFlight
  <2>2. CASE Next
    BY <1>1, <2>2, QuietStep, CreateStep, WriteStep, SealStep, EnsureStep
       DEF Next, Step
  <2> QED
    BY <1>1, <2>1, <2>2
<1> QED
  BY InitIInv, <1>1, PTL DEF Spec

\* The variables of the key store keep their types.
THEOREM TypeCorrect == Spec => []TypeOK
BY Invariance, PTL DEF IInv

\* The keyring, the key file, every process and every sealed secret agree on
\* one key, whatever races, is killed or is out of reach.
THEOREM OneKeyHolds == Spec => []OneKey
<1>1. IInv => OneKey
  BY KeyAssumption DEF IInv, KeysAgree, OneKey, Unsealed
<1> QED
  BY Invariance, <1>1, PTL

\* The key file is undecodable only under its writer or after a kill.
THEOREM BrokenOnlyInFlightHolds == Spec => []BrokenOnlyInFlight
BY Invariance, PTL DEF IInv

\* No step of any process replaces a key that is in the file.
THEOREM KeyFileFinalHolds == Spec => KeyFileFinal
<1>1. ASSUME IInv, [Next]_vars, file \in Key
      PROVE  file' = file
  <2>1. ASSUME NEW p \in Proc, CreateKeyFile(p)
        PROVE  file' = file
    BY <1>1, <2>1, KeyAssumption DEF CreateKeyFile
  <2>2. ASSUME NEW p \in Proc, NEW k \in Key, WriteKeyFile(p, k)
        PROVE  file' = file
    BY <1>1, <2>2, KeyAssumption DEF WriteKeyFile, IInv, WriterAlone
  <2>3. ASSUME UNCHANGED file
        PROVE  file' = file
    BY <2>3
  <2> QED
    BY <1>1, <2>1, <2>2, <2>3
       DEF Next, Step, vars, Start, KeyringHit, KeyringMiss, OpenKeyFile,
           Truncate, Seal, EnsureKeyStored, OpenApiKey, OpenTokens, GiveUp,
           WriteKeyFileFails, Kill
<1> QED
  BY Invariance, <1>1, PTL DEF Spec, KeyFileFinal
=============================================================================
