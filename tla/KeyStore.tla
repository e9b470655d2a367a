----------------------------- MODULE KeyStore ------------------------------
(***************************************************************************)
(* The encryption key of the CLI and the secrets it seals, on one machine: *)
(* the OS keyring entry, the file <config>/kvcdn/.key, credentials.enc and *)
(* api_key.enc, shared by concurrently running kvcdn processes without a   *)
(* lock.  A process loads the key from the keyring, else from the file,    *)
(* else creates the file; a login later copies the key into the keyring.   *)
(* Any access to the keyring may fail, any process may be killed.          *)
(***************************************************************************)
EXTENDS Naturals

CONSTANTS
    Proc,       \* slots of concurrently running kvcdn processes
    Key,        \* the values random_key may return
    NoKey,      \* no key: an absent keyring entry, or nothing loaded yet
    MaxCrashes  \* bound on killed processes and failing writes

ASSUME KeyAssumption ==
    /\ NoKey \notin Key
    /\ {"none", "broken", "blank", "mixed"} \intersect (Key \union {NoKey}) = {}
    /\ MaxCrashes \in Nat

VARIABLES
    keyring, \* the keyring entry
    file,    \* the key file: its key, "none", or "broken" (empty, undecodable)
    sealed,  \* sealed[s]: the key the file of secret s is sealed with, or Unsealed
    proc,    \* proc[p]: what the process in slot p is doing
    crashes  \* killed processes and failing writes so far

vars == <<keyring, file, sealed, proc, crashes>>

Secret == {"tokens", "apiKey"}

\* No file, one just truncated, or one with two texts written into another.
Unsealed == {"none", "blank", "mixed"}

\* login and api-key set seal a secret; other hosted commands open both, and
\* seal the tokens again when they refresh them.
Command == {"login", "setKey", "run"}

LoadPhase == {"keyring", "open", "create", "write"}

Phase == {"idle", "truncate", "seal", "ensure", "openApiKey", "openTokens",
          "loadFailed"} \union LoadPhase

\* own is the key FileCredentialStore keeps while load_stored_api_key loads
\* the key a second time.  lost is history: create_new told the process, in
\* this load of the key, that another one has created the file.
Process == [cmd : Command, phase : Phase, key : Key \union {NoKey},
            own : Key \union {NoKey}, lost : BOOLEAN]

TypeOK ==
    /\ keyring \in Key \union {NoKey}
    /\ file \in Key \union {"none", "broken"}
    /\ sealed \in [Secret -> Key \union Unsealed]
    /\ proc \in [Proc -> Process]
    /\ crashes \in 0..MaxCrashes

At(cmd, phase, k, own) == [cmd |-> cmd, phase |-> phase, key |-> k, own |-> own,
                           lost |-> FALSE]

Idle == At("run", "idle", NoKey, NoKey)

Init ==
    /\ keyring = NoKey
    /\ file = "none"
    /\ sealed = [s \in Secret |-> "none"]
    /\ proc = [p \in Proc |-> Idle]
    /\ crashes = 0

Become(p, x) == proc' = [proc EXCEPT ![p] = x]

Goto(p, phase) == Become(p, [proc[p] EXCEPT !.phase = phase])

Start(p, cmd) ==
    /\ proc[p].phase = "idle"
    /\ Become(p, At(cmd, "keyring", NoKey, NoKey))
    /\ UNCHANGED <<keyring, file, sealed, crashes>>

(***************************************************************************)
(* load_or_create_key                                                      *)
(***************************************************************************)
\* A command that seals goes on with the key.  The others load it twice: the
\* first key opens the tokens, the second one the API key.
Loaded(p, k) ==
    LET own == proc[p].own IN
    Become(p, IF proc[p].cmd # "run" THEN At(proc[p].cmd, "truncate", k, own)
              ELSE IF own = NoKey THEN At("run", "keyring", NoKey, k)
              ELSE At("run", "openApiKey", k, own))

\* An error of the first load ends the command; the second one's is dropped
\* (load_stored_api_key().ok()) and the command goes on to the tokens.
LoadFails(p) ==
    Goto(p, IF proc[p].own = NoKey THEN "loadFailed" ELSE "openTokens")

KeyringHit(p) ==
    /\ proc[p].phase = "keyring"
    /\ keyring # NoKey
    /\ Loaded(p, keyring)
    /\ UNCHANGED <<keyring, file, sealed, crashes>>

\* No entry, or a keyring that cannot be reached: use the file.
KeyringMiss(p) ==
    /\ proc[p].phase = "keyring"
    /\ Goto(p, "open")
    /\ UNCHANGED <<keyring, file, sealed, crashes>>

\* Mutants: an undecodable file is read again, or taken for a key.
OpenKeyFileAs(p, whenBroken) ==
    /\ proc[p].phase = "open"
    /\ CASE file = "none" -> Goto(p, "create")
         [] file = "broken" -> whenBroken
         [] OTHER -> Loaded(p, file)
    /\ UNCHANGED <<keyring, file, sealed, crashes>>
OpenKeyFileRetries(p) == OpenKeyFileAs(p, Goto(p, "open"))
OpenKeyFileUndecoded(p) == OpenKeyFileAs(p, Loaded(p, file))

OpenKeyFile(p) ==
    /\ proc[p].phase = "open"
    /\ CASE file = "none" -> Goto(p, "create")
         [] file = "broken" -> LoadFails(p)
         [] OTHER -> Loaded(p, file)
    /\ UNCHANGED <<keyring, file, sealed, crashes>>

\* Mutant: the file is created without create_new.
CreateKeyFileTruncating(p) ==
    /\ proc[p].phase = "create"
    /\ file' = "broken"
    /\ Goto(p, "write")
    /\ UNCHANGED <<keyring, sealed, crashes>>

\* create_new fails when the file exists by now; the loop reads it again.
CreateKeyFile(p) ==
    /\ proc[p].phase = "create"
    /\ IF file = "none"
       THEN file' = "broken" /\ Goto(p, "write")
       ELSE /\ Become(p, [proc[p] EXCEPT !.phase = "open", !.lost = TRUE])
            /\ UNCHANGED file
    /\ UNCHANGED <<keyring, sealed, crashes>>

\* Mutant: the key is used before it is written out.
WriteKeyFileLater(p, k) ==
    /\ proc[p].phase = "write"
    /\ Loaded(p, k)
    /\ UNCHANGED <<keyring, file, sealed, crashes>>

WriteKeyFile(p, k) ==
    /\ proc[p].phase = "write"
    /\ file' = k
    /\ Loaded(p, k)
    /\ UNCHANGED <<keyring, sealed, crashes>>

WriteKeyFileFails(p) ==
    /\ proc[p].phase = "write"
    /\ crashes < MaxCrashes
    /\ crashes' = crashes + 1
    /\ LoadFails(p)
    /\ UNCHANGED <<keyring, file, sealed>>

(***************************************************************************)
(* Sealing and opening the secrets                                         *)
(***************************************************************************)
SecretOf(p) == IF proc[p].cmd = "setKey" THEN "apiKey" ELSE "tokens"

\* fs::write truncates the file and then writes it.
Truncate(p) ==
    /\ proc[p].phase = "truncate"
    /\ sealed' = [sealed EXCEPT ![SecretOf(p)] = "blank"]
    /\ Goto(p, "seal")
    /\ UNCHANGED <<keyring, file, crashes>>

\* A second process that truncated the same file before this write finds it
\* written to: the two texts may mix.
Seal(p) ==
    LET s == SecretOf(p) IN
    /\ proc[p].phase = "seal"
    /\ \/ sealed' = [sealed EXCEPT ![s] = proc[p].key]
       \/ sealed[s] # "blank" /\ sealed' = [sealed EXCEPT ![s] = "mixed"]
    /\ IF proc[p].cmd = "login" THEN Goto(p, "ensure") ELSE Become(p, Idle)
    /\ UNCHANGED <<keyring, file, crashes>>

\* Mutant: the key moves from the file into the keyring.
EnsureKeyMoved(p) ==
    /\ proc[p].phase = "ensure"
    /\ keyring' = proc[p].key
    /\ file' = "none"
    /\ Become(p, Idle)
    /\ UNCHANGED <<sealed, crashes>>

\* ensure_key_stored; an unreachable keyring makes the login report an error
\* although its tokens are saved.
EnsureKeyStored(p) ==
    /\ proc[p].phase = "ensure"
    /\ keyring' \in {proc[p].key, keyring}
    /\ Become(p, Idle)
    /\ UNCHANGED <<file, sealed, crashes>>

\* An API key that opens is used; one that does not is passed over.
OpenApiKey(p) ==
    /\ proc[p].phase = "openApiKey"
    /\ IF sealed["apiKey"] = proc[p].key THEN Become(p, Idle)
       ELSE Goto(p, "openTokens")
    /\ UNCHANGED <<keyring, file, sealed, crashes>>

\* The command has its credentials, or reports that it has none; tokens that
\* are about to expire are refreshed and sealed anew with the client's own key.
OpenTokens(p) ==
    /\ proc[p].phase = "openTokens"
    /\ \/ Become(p, Idle)
       \/ /\ sealed["tokens"] = proc[p].own
          /\ Become(p, At("run", "truncate", proc[p].own, proc[p].own))
    /\ UNCHANGED <<keyring, file, sealed, crashes>>

GiveUp(p) ==
    /\ proc[p].phase = "loadFailed"
    /\ Become(p, Idle)
    /\ UNCHANGED <<keyring, file, sealed, crashes>>

Kill(p) ==
    /\ proc[p].phase # "idle"
    /\ crashes < MaxCrashes
    /\ crashes' = crashes + 1
    /\ Become(p, Idle)
    /\ UNCHANGED <<keyring, file, sealed>>

\* What a running process does next, if it is let to run.
Step(p) ==
    \/ KeyringHit(p)
    \/ KeyringMiss(p)
    \/ OpenKeyFile(p)
    \/ CreateKeyFile(p)
    \/ \E k \in Key : WriteKeyFile(p, k)
    \/ Truncate(p)
    \/ Seal(p)
    \/ EnsureKeyStored(p)
    \/ OpenApiKey(p)
    \/ OpenTokens(p)
    \/ GiveUp(p)

Next == \E p \in Proc :
    \/ \E cmd \in Command : Start(p, cmd)
    \/ Step(p)
    \/ WriteKeyFileFails(p)
    \/ Kill(p)

Spec == Init /\ [][Next]_vars

\* The operating system runs every process that can run.
FairSpec == Spec /\ \A p \in Proc : WF_vars(Step(p))

(***************************************************************************)
(* Properties                                                              *)
(***************************************************************************)
\* One machine, one key: the keyring entry, the key file, every key a process
\* works with and every sealed secret agree, however first runs race and
\* however often the keyring is out of reach.  So no secret is ever locked out.
OneKey ==
    LET inUse == {keyring} \union {sealed[s] : s \in Secret}
                   \union {proc[p].key : p \in Proc} \union {proc[p].own : p \in Proc}
    IN inUse \intersect Key \subseteq {file}

\* The key file is undecodable only while a process is about to write it, or
\* after one was killed there.
BrokenOnlyInFlight ==
    file = "broken" => crashes > 0 \/ \E p \in Proc : proc[p].phase = "write"

\* A key, once in the file, stays; nothing the CLI does replaces it.
KeyFileFinal == [][(file \in Key) => (file' = file)]_vars

\* The loop over open and create_new ends: the process gets a key or an error.
LoadEnds ==
    \A p \in Proc :
        proc[p].phase \in LoadPhase ~> proc[p].phase \notin LoadPhase

\* What crypto.rs:127-128 says of a process that lost the race for the key
\* file: "Another process created the file between the open and create_new
\* attempts.  Loop around and try to read it."  So, while nobody is killed and
\* no write fails, the load of a process whose create_new lost does not fail.
LoserReadsKey ==
    crashes = 0 => \A p \in Proc : proc[p].lost => proc[p].phase # "loadFailed"
=============================================================================
