------------------------------ MODULE Session ------------------------------
(***************************************************************************)
(* The stored session of the CLI: credentials.enc and api_key.enc shared   *)
(* by concurrently running kvcdn processes, and the issuer's refresh       *)
(* tokens.  A command loads the tokens, refreshes them at the issuer when  *)
(* they are about to expire, saves the new ones and calls the API; login   *)
(* saves tokens of a new session; logout deletes the files.  Nothing locks *)
(* the files across those steps, and a save opens credentials.enc, which   *)
(* truncates it, and writes it in two steps: saves may overlap, be cut     *)
(* short or go into a file that a logout has removed.                      *)
(*                                                                         *)
(* Grants are numbered; a session is named by the grant that began it.     *)
(* History variables, which no action reads but to record more history:    *)
(* intent, overtaken, undone, spoiled, hurt.                               *)
(***************************************************************************)
EXTENDS Naturals

CONSTANTS
    Proc,       \* slots of concurrently running kvcdn processes
    NoSession,  \* no tokens, or no file
    Blank,      \* a file that was truncated and not yet written
    Mixed,      \* a file with the texts of two saves in it, which nobody can read
    MaxGrant,   \* bound on the grants of the issuer
    MaxFaults   \* bound on killed processes, failing saves and lost replies

ASSUME SessionAssumption ==
    /\ MaxGrant \in Nat
    /\ NoSession \notin 0..MaxGrant
    /\ MaxFaults \in Nat

VARIABLES
    issuer,    \* how the issuer treats a refresh token; it never changes
    stored,    \* credentials.enc: tokens, NoSession, Blank or Mixed
    writers,   \* processes that have it open; a removed file is open to none of them
    apiKey,    \* whether api_key.enc holds a key
    live,      \* refresh tokens the issuer accepts
    expiring,  \* grants whose access token is about to expire or has expired
    grants,    \* number of grants so far
    proc,      \* proc[p]: what the process in slot p is doing
    faults,    \* failures so far
    intent,    \* history: the session of the last login, NoSession after a logout
    overtaken, \* history: processes whose tokens are older than that
    undone,    \* history: whether such a process has saved since
    spoiled,   \* history: the last save overlapped with another, or was cut short
    hurt       \* history: sessions whose refreshed tokens were lost by a fault

file == <<stored, writers, spoiled>>
intention == <<intent, undone>>
vars == <<issuer, file, apiKey, live, expiring, grants, proc, faults, intention, overtaken, hurt>>

\* An issuer replaces a refresh token when it is used, or keeps it, or refuses
\* it: the repository's own hands one out and does not know the grant.
Issuer == {"rotating", "keeping", "refusing"}

Grant == 1..MaxGrant

\* The access token is named by its grant, the refresh token by the grant that
\* issued it, the session by its first grant.
Tokens == [access : Grant, refresh : Grant, session : Grant]

ASSUME NoSessionAssumption ==
    /\ {NoSession, Blank, Mixed} \intersect Tokens = {}
    /\ NoSession \notin {Blank, Mixed} /\ Blank # Mixed

Granted(n, refresh, session) ==
    [access |-> n, refresh |-> refresh, session |-> session]

\* A process is about to open the file, or has it open and is about to write.
Saving == {"save", "saveLogin"}
Writing == {"write", "writeLogin"}

Phase == {"idle", "ready", "refresh", "call", "deleteKey"} \union Saving \union Writing

\* hasKey is the API key FileCredentialStore read when the client was made.
Process == [phase : Phase, hasKey : BOOLEAN, tokens : Tokens \union {NoSession}]

At(phase, hasKey, tokens) ==
    [phase |-> phase, hasKey |-> hasKey, tokens |-> tokens]

Idle == At("idle", FALSE, NoSession)

TypeOK ==
    /\ issuer \in Issuer
    /\ stored \in Tokens \union {NoSession, Blank, Mixed}
    /\ writers \subseteq Proc
    /\ apiKey \in BOOLEAN
    /\ live \subseteq Grant
    /\ expiring \subseteq Grant
    /\ grants \in 0..MaxGrant
    /\ proc \in [Proc -> Process]
    /\ faults \in 0..MaxFaults
    /\ intent \in Grant \union {NoSession}
    /\ overtaken \subseteq Proc
    /\ undone \in BOOLEAN
    /\ spoiled \in BOOLEAN
    /\ hurt \subseteq Grant

Init ==
    /\ issuer \in Issuer
    /\ stored = NoSession
    /\ writers = {}
    /\ apiKey = FALSE
    /\ live = {}
    /\ expiring = {}
    /\ grants = 0
    /\ proc = [p \in Proc |-> Idle]
    /\ faults = 0
    /\ intent = NoSession
    /\ overtaken = {}
    /\ undone = FALSE
    /\ spoiled = FALSE
    /\ hurt = {}

Become(p, x) ==
    /\ proc' = [proc EXCEPT ![p] = x]
    /\ overtaken' = IF x.tokens = NoSession THEN overtaken \ {p} ELSE overtaken

\* A login or a logout takes effect: whoever else holds tokens now holds older
\* ones.
Intend(p, session) ==
    /\ intent' = session
    /\ undone' = FALSE
    /\ overtaken' = {q \in Proc \ {p} : proc[q].tokens # NoSession}

(***************************************************************************)
(* TokenStore::save: fs::write opens the file, which creates or truncates  *)
(* it, and writes it.                                                      *)
(***************************************************************************)
OpenFile(p) ==
    /\ stored' = Blank
    /\ writers' = writers \union {p}
    /\ spoiled' = (writers # {})

\* Mutant: only the access token is written.
WriteFileAccessOnly(p) ==
    /\ stored' = [proc[p].tokens EXCEPT !.refresh = NoSession]
    /\ writers' = writers \ {p}
    /\ undone' = (undone \/ p \in overtaken \intersect writers)
    /\ UNCHANGED <<spoiled, intent>>

\* What another process has written since the file was opened is overwritten
\* from the start: the longer text leaves its end behind.  Bytes for a file that
\* was removed are lost.
WriteFile(p) ==
    /\ stored' \in IF p \notin writers THEN {stored}
                   ELSE IF stored = Blank THEN {proc[p].tokens}
                   ELSE {proc[p].tokens, Mixed}
    /\ writers' = writers \ {p}
    /\ undone' = (undone \/ p \in overtaken \intersect writers)
    /\ UNCHANGED <<spoiled, intent>>

(***************************************************************************)
(* kvcdn login, logout, api-key set and api-key clear                      *)
(***************************************************************************)
LoginGrant(p) ==
    LET n == grants + 1 IN
    /\ proc[p].phase = "idle"
    /\ grants < MaxGrant
    /\ grants' = n
    /\ live' = IF issuer = "refusing" THEN live ELSE live \union {n}
    /\ Become(p, At("saveLogin", FALSE, Granted(n, n, n)))
    /\ UNCHANGED <<issuer, file, apiKey, expiring, faults, intention, hurt>>

LoginOpens(p) ==
    LET t == proc[p].tokens IN
    /\ proc[p].phase = "saveLogin"
    /\ OpenFile(p)
    /\ proc' = [proc EXCEPT ![p] = At("writeLogin", FALSE, t)]
    /\ Intend(p, t.session)
    /\ UNCHANGED <<issuer, apiKey, live, expiring, grants, faults, hurt>>

LoginWrites(p) ==
    /\ proc[p].phase = "writeLogin"
    /\ WriteFile(p)
    /\ Become(p, Idle)
    /\ UNCHANGED <<issuer, apiKey, live, expiring, grants, faults, hurt>>

\* Mutant: only the API key is removed.
LogoutKeepsTokens(p) ==
    /\ proc[p].phase = "idle"
    /\ proc' = [proc EXCEPT ![p] = At("deleteKey", FALSE, NoSession)]
    /\ Intend(p, NoSession)
    /\ UNCHANGED <<issuer, file, apiKey, live, expiring, grants, faults, hurt>>

LogoutTokens(p) ==
    /\ proc[p].phase = "idle"
    /\ stored' = NoSession
    /\ writers' = {}
    /\ spoiled' = FALSE
    /\ proc' = [proc EXCEPT ![p] = At("deleteKey", FALSE, NoSession)]
    /\ Intend(p, NoSession)
    /\ UNCHANGED <<issuer, apiKey, live, expiring, grants, faults, hurt>>

LogoutKey(p) ==
    /\ proc[p].phase = "deleteKey"
    /\ apiKey' = FALSE
    /\ Become(p, Idle)
    /\ UNCHANGED <<issuer, file, live, expiring, grants, faults, intention, hurt>>

SetKey(p) ==
    /\ proc[p].phase = "idle"
    /\ apiKey' = TRUE
    /\ UNCHANGED <<issuer, file, live, expiring, grants, proc, faults, intention, overtaken, hurt>>

ClearKey(p) ==
    /\ proc[p].phase = "idle"
    /\ apiKey' = FALSE
    /\ UNCHANGED <<issuer, file, live, expiring, grants, proc, faults, intention, overtaken, hurt>>

(***************************************************************************)
(* A command with one or more API calls                                    *)
(***************************************************************************)
Open(p) ==
    /\ proc[p].phase = "idle"
    /\ Become(p, At("ready", apiKey, NoSession))
    /\ UNCHANGED <<issuer, file, apiKey, live, expiring, grants, faults, intention, hurt>>

\* bearer_token: the API key goes before the tokens, which are loaded anew for
\* every call and refreshed when they are about to expire.  No file, or one that
\* cannot be decrypted, ends the command.
Bearer(p) ==
    LET h == proc[p] IN
    /\ h.phase = "ready"
    /\ Become(p, IF h.hasKey THEN At("call", TRUE, NoSession)
                 ELSE IF stored \notin Tokens THEN Idle
                 ELSE IF stored.access \in expiring THEN At("refresh", FALSE, stored)
                 ELSE At("call", FALSE, NoSession))
    /\ UNCHANGED <<issuer, file, apiKey, live, expiring, grants, faults, intention, hurt>>

\* The issuer's side of a refresh with the token r.  One that keeps r leaves the
\* response's refresh_token out and the CLI keeps r too; of the repository's own
\* issuer no token is ever accepted.
IssuerGrants(r) ==
    /\ r \in live
    /\ grants < MaxGrant
    /\ grants' = grants + 1
    /\ live' = IF issuer = "rotating" THEN (live \ {r}) \union {grants + 1} ELSE live

\* Mutant: the refresh token of the response is ignored.
RefreshKeepsOld(p) ==
    LET t == proc[p].tokens IN
    /\ proc[p].phase = "refresh"
    /\ IssuerGrants(t.refresh)
    /\ Become(p, At("save", FALSE, Granted(grants + 1, t.refresh, t.session)))
    /\ UNCHANGED <<issuer, file, apiKey, expiring, faults, intention, hurt>>

Refresh(p) ==
    LET t == proc[p].tokens IN
    /\ proc[p].phase = "refresh"
    /\ IssuerGrants(t.refresh)
    /\ Become(p, At("save", FALSE,
                    Granted(grants + 1,
                            IF issuer = "rotating" THEN grants + 1 ELSE t.refresh,
                            t.session)))
    /\ UNCHANGED <<issuer, file, apiKey, expiring, faults, intention, hurt>>

\* Refused by the issuer, or the issuer is out of reach.
RefreshFails(p) ==
    /\ proc[p].phase = "refresh"
    /\ Become(p, Idle)
    /\ UNCHANGED <<issuer, file, apiKey, live, expiring, grants, faults, intention, hurt>>

\* The issuer grants and the reply is lost.
RefreshReplyLost(p) ==
    /\ proc[p].phase = "refresh"
    /\ faults < MaxFaults
    /\ faults' = faults + 1
    /\ IssuerGrants(proc[p].tokens.refresh)
    /\ hurt' = hurt \union {proc[p].tokens.session}
    /\ Become(p, Idle)
    /\ UNCHANGED <<issuer, file, apiKey, expiring, intention>>

\* Mutant: the refreshed tokens are used and not saved.
RefreshUnsaved(p) ==
    /\ proc[p].phase = "save"
    /\ Become(p, At("call", FALSE, NoSession))
    /\ UNCHANGED <<issuer, file, apiKey, live, expiring, grants, faults, intention, hurt>>

RefreshOpens(p) ==
    /\ proc[p].phase = "save"
    /\ OpenFile(p)
    /\ Become(p, At("write", FALSE, proc[p].tokens))
    /\ undone' = (undone \/ p \in overtaken)
    /\ UNCHANGED <<issuer, apiKey, live, expiring, grants, faults, intent, hurt>>

RefreshWrites(p) ==
    /\ proc[p].phase = "write"
    /\ WriteFile(p)
    /\ Become(p, At("call", FALSE, NoSession))
    /\ UNCHANGED <<issuer, apiKey, live, expiring, grants, faults, hurt>>

\* The API call; the command makes another one or ends.
Call(p) ==
    /\ proc[p].phase = "call"
    /\ Become(p, Idle) \/ Become(p, At("ready", proc[p].hasKey, NoSession))
    /\ UNCHANGED <<issuer, file, apiKey, live, expiring, grants, faults, intention, hurt>>

(***************************************************************************)
(* Time and faults                                                         *)
(***************************************************************************)
\* An access token comes within 60 seconds of its end.
Expire(n) ==
    /\ n <= grants
    /\ expiring' = expiring \union {n}
    /\ UNCHANGED <<issuer, file, apiKey, live, grants, proc, faults, intention, overtaken, hurt>>

\* A process ends before its time: tokens that it was to save are lost, and a
\* file that it has open is left as it is.
Ends(p) ==
    /\ faults < MaxFaults
    /\ faults' = faults + 1
    /\ hurt' = IF proc[p].phase \in Saving \union Writing
               THEN hurt \union {proc[p].tokens.session} ELSE hurt
    /\ spoiled' = (spoiled \/ p \in writers)
    /\ writers' = writers \ {p}
    /\ Become(p, Idle)
    /\ UNCHANGED <<issuer, stored, apiKey, live, expiring, grants, intention>>

\* The file cannot be opened, or not be written: the command ends with an error.
SaveFails(p) ==
    /\ proc[p].phase \in Saving \union Writing
    /\ Ends(p)

Kill(p) ==
    /\ proc[p].phase # "idle"
    /\ Ends(p)

Next ==
    \/ \E p \in Proc :
          \/ LoginGrant(p)
          \/ LoginOpens(p)
          \/ LoginWrites(p)
          \/ LogoutTokens(p)
          \/ LogoutKey(p)
          \/ SetKey(p)
          \/ ClearKey(p)
          \/ Open(p)
          \/ Bearer(p)
          \/ Refresh(p)
          \/ RefreshFails(p)
          \/ RefreshReplyLost(p)
          \/ RefreshOpens(p)
          \/ RefreshWrites(p)
          \/ SaveFails(p)
          \/ Call(p)
          \/ Kill(p)
    \/ \E n \in Grant : Expire(n)

Spec == Init /\ [][Next]_vars

(***************************************************************************)
(* Properties                                                              *)
(***************************************************************************)
\* A session in the file can be refreshed, now or once the process that has
\* refreshed it has saved, if its issuer accepts refresh tokens at all.  No
\* interleaving of commands, logins and logouts strands it; of an issuer that
\* keeps a token nothing does, of a rotating one only a kill, a failing save or a
\* lost reply.  And the file itself can be read, or will be, unless the last save
\* was cut short or overlapped with another one (token_store.rs:50).
SessionNotStranded ==
    issuer # "refusing" /\ ~spoiled =>
        /\ stored # Mixed
        /\ stored = Blank => writers # {}
        /\ stored \in Tokens =>
              \/ stored.refresh \in live
              \/ issuer = "rotating" /\ stored.session \in hurt
              \/ \E p \in Proc : proc[p].phase = "save" /\ proc[p].tokens.refresh \in live
                                 /\ proc[p].tokens.session = stored.session

\* The tokens in the file are those of the last login, and there is no file
\* after a logout, unless a command that had loaded its tokens before has saved
\* them since.  A file without tokens is about to get those of the last login,
\* unless saves overlapped or were cut short.
LastLoginWins ==
    ~undone =>
        IF intent = NoSession THEN stored = NoSession
        ELSE IF stored \in Tokens THEN stored.session = intent
        ELSE /\ stored # NoSession
             /\ spoiled \/ \E p \in writers : proc[p].tokens.session = intent

\* No two holders of a rotated refresh token: the file and a process that saves
\* never carry the same live token of a rotating issuer, nor do two such
\* processes, so a save never puts back a token that was used.
SavedTokenUnused ==
    issuer = "rotating" => \A p \in Proc : proc[p].phase \in Saving \union Writing =>
        /\ proc[p].tokens.refresh \in live
        /\ stored \in Tokens => stored.refresh # proc[p].tokens.refresh
        /\ \A q \in Proc \ {p} : proc[q].phase \in Saving \union Writing =>
               proc[q].tokens.refresh # proc[p].tokens.refresh

\* What README.md:47 says of logout: it removes the stored tokens.  So none
\* are stored from a logout until the next login.
LoggedOutForGood == intent = NoSession => stored = NoSession
=============================================================================
