------------------------------- MODULE Login -------------------------------
(***************************************************************************)
(* kvcdn login: by a device code (DeviceLogin) if the issuer supports one, *)
(* else by an authorization code, which the browser brings to a server     *)
(* that the CLI runs on a port of its own.  A thread serves that port and  *)
(* sends the first answer through a channel to the main thread, which      *)
(* waits for it, joins the thread and has the issuer trade the code.  The  *)
(* repository's issuer advertises device codes, so the CLI logs in through *)
(* the browser at another one only; what such an issuer does with a code   *)
(* is modelled by GET /auth and POST /token of the repository's.           *)
(*                                                                         *)
(* Requests reach the port in any number and order: the redirect, a        *)
(* redirect of another login whose port it was before, a request of some   *)
(* other program, and the one by which Drop wakes the thread.              *)
(***************************************************************************)
EXTENDS DeviceLogin, Sequences

CONSTANTS
    CodeTtl,    \* AUTH_CODE_TTL_MS of the issuer, in ticks
    Nobody,     \* a subject that is no user's
    MaxVisits   \* bound on requests that reach callback servers

ASSUME LoginAssumption ==
    /\ CodeTtl \in Nat
    /\ Nobody \notin Client
    /\ MaxVisits \in Nat

VARIABLES
    device,  \* supports_device_code() of the issuer, never changed
    main,    \* main[p]: where login_authorization_code of p is
    thread,  \* thread[p]: the thread of its callback server
    inbox,   \* inbox[p]: requests at the server's socket
    visits,  \* how many have come to all servers
    chan,    \* chan[p]: what was sent through the channel and not received
    code,    \* code[p]: the issuer's entry for the code of p, and its age
    tokens   \* tokens[p]: whose tokens p was given

webVars == <<main, thread, inbox, visits, chan, code, tokens>>
loginVars == <<vars, device, webVars>>

(***************************************************************************)
(* Requests at a callback server                                           *)
(***************************************************************************)
Redirect(q) == [kind |-> "code", state |-> q]
Denied(q) == [kind |-> "error", state |-> q]
Stray == [kind |-> "stray", state |-> Nobody]
NoUrl == [kind |-> "noUrl", state |-> Nobody]
Wake == [kind |-> "wake", state |-> Nobody]

NothingSent == [kind |-> "nothing"]
SentError == [kind |-> "error"]
SentCode(q) == [kind |-> "code", of |-> q]

\* forgotten is history: a restart of the issuer took the code away.
NoCode == [issued |-> FALSE, stored |-> FALSE, age |-> 0, forgotten |-> FALSE]
NewCode == [issued |-> TRUE, stored |-> TRUE, age |-> 0, forgotten |-> FALSE]

\* A login that could not wake its thread is abandoned; others fail.
MainEnded == {"granted", "failed", "abandoned"}

LoginInit ==
    /\ Init
    /\ device \in BOOLEAN
    /\ main = [p \in Client |-> "idle"]
    /\ thread = [p \in Client |-> "none"]
    /\ inbox = [p \in Client |-> <<>>]
    /\ visits = 0
    /\ chan = [p \in Client |-> NothingSent]
    /\ code = [p \in Client |-> NoCode]
    /\ tokens = [p \in Client |-> Nobody]

GoMain(p, phase) == main' = [main EXCEPT ![p] = phase]

(***************************************************************************)
(* The issuer                                                              *)
(***************************************************************************)
\* pruneAuthCodes, before a code is made and before one is looked up.
Pruned(codes) == [q \in Client |-> [codes[q] EXCEPT !.stored = @ /\ codes[q].age <= CodeTtl]]

\* The user opens the URL: GET /auth makes a code and redirects the browser.
Authorize(p) ==
    /\ main[p] = "waiting"
    /\ ~code[p].issued
    /\ code' = [Pruned(code) EXCEPT ![p] = NewCode]
    /\ UNCHANGED <<main, thread, inbox, visits, chan, tokens, vars>>

\* The issuer is restarted: its map of codes is empty again.
CodesLost ==
    /\ lost < MaxLost
    /\ lost' = lost + 1
    /\ code' = [p \in Client |-> [code[p] EXCEPT !.stored = FALSE,
                                                !.forgotten = @ \/ code[p].stored]]
    /\ UNCHANGED <<main, thread, inbox, visits, chan, tokens, auth, age, cli, lag>>

(***************************************************************************)
(* The thread of the callback server                                       *)
(***************************************************************************)
\* Something connects to the port while the server has it.
Arrive(p, request) ==
    /\ thread[p] \in {"listening", "shutDown"}
    /\ visits < MaxVisits
    /\ request.kind = "code" => code[request.state].issued
    /\ inbox' = [inbox EXCEPT ![p] = Append(@, request)]
    /\ visits' = visits + 1
    /\ UNCHANGED <<main, thread, chan, code, tokens, vars>>

\* Mutant: the state is not compared.
AnswerToAny(p, request) == IF request.kind = "code" THEN SentCode(request.state) ELSE SentError

\* What the thread sends for a request, the first one that has a query.
AnswerTo(p, request) ==
    IF request.state = p /\ request.kind = "code" THEN SentCode(request.state) ELSE SentError

\* The thread takes the next request.  Once it is told to shut down it breaks
\* off at any; it goes on only after a request that is no URL.
Serve(p) ==
    LET request == Head(inbox[p]) IN
    /\ thread[p] \in {"listening", "shutDown"}
    /\ inbox[p] # <<>>
    /\ inbox' = [inbox EXCEPT ![p] = Tail(@)]
    /\ \/ thread[p] = "shutDown" /\ thread' = [thread EXCEPT ![p] = "ended"] /\ UNCHANGED chan
       \/ thread[p] = "listening" /\ request = NoUrl /\ UNCHANGED <<thread, chan>>
       \/ /\ thread[p] = "listening" /\ request # NoUrl
          /\ thread' = [thread EXCEPT ![p] = "responding"]
          /\ chan' = [chan EXCEPT ![p] = AnswerTo(p, request)]
    /\ UNCHANGED <<main, visits, code, tokens, vars>>

\* The browser gets its page, and the thread ends.
Respond(p) ==
    /\ thread[p] = "responding"
    /\ thread' = [thread EXCEPT ![p] = "ended"]
    /\ UNCHANGED <<main, inbox, visits, chan, code, tokens, vars>>

\* An error of the socket ends the loop over its requests.
AcceptFails(p) ==
    /\ thread[p] = "listening"
    /\ lost < MaxLost
    /\ lost' = lost + 1
    /\ thread' = [thread EXCEPT ![p] = "ended"]
    /\ UNCHANGED <<main, inbox, visits, chan, code, tokens, auth, age, cli, lag>>

(***************************************************************************)
(* The main thread                                                         *)
(***************************************************************************)
\* CallbackServer::start; without a port the login fails.
StartServer(p) ==
    /\ main[p] = "idle"
    /\ \/ /\ GoMain(p, "started")
          /\ thread' = [thread EXCEPT ![p] = "listening"]
       \/ GoMain(p, "failed") /\ UNCHANGED thread
    /\ UNCHANGED <<inbox, visits, chan, code, tokens, vars>>

\* An authorization endpoint that is no URL ends the login, and drops the
\* server; a browser that does not open is worth a warning only.
BuildUrl(p) ==
    /\ main[p] = "started"
    /\ GoMain(p, "waiting") \/ GoMain(p, "dropping")
    /\ UNCHANGED <<thread, inbox, visits, chan, code, tokens, vars>>

\* The receiver gets what was sent, or finds the thread gone without a word.
Receive(p) ==
    /\ main[p] = "waiting"
    /\ \/ chan[p] # NothingSent /\ GoMain(p, "joining")
       \/ chan[p] = NothingSent /\ thread[p] = "ended" /\ GoMain(p, "dropping")
    /\ UNCHANGED <<thread, inbox, visits, chan, code, tokens, vars>>

Join(p) ==
    /\ main[p] = "joining"
    /\ thread[p] = "ended"
    /\ GoMain(p, IF chan[p] = SentError THEN "failed" ELSE "exchanging")
    /\ UNCHANGED <<thread, inbox, visits, chan, code, tokens, vars>>

\* exchange_code, and POST /token: the code is used up before the token is
\* signed; one that is not stored is taken for the name of a subject.
Exchange(p) ==
    LET codes == Pruned(code)
        q == chan[p].of
    IN  /\ main[p] = "exchanging"
        /\ tokens' = [tokens EXCEPT ![p] = IF codes[q].stored THEN q ELSE Nobody]
        /\ code' = [codes EXCEPT ![q].stored = FALSE]
        /\ GoMain(p, "granted")
        /\ UNCHANGED <<thread, inbox, visits, chan, vars>>

\* The request to the issuer or its reply is lost, the latter after the code
\* is used up.
LoseExchange(p) ==
    /\ main[p] = "exchanging"
    /\ lost < MaxLost
    /\ lost' = lost + 1
    /\ GoMain(p, "failed")
    /\ \/ UNCHANGED code
       \/ code' = [Pruned(code) EXCEPT ![chan[p].of].stored = FALSE]
    /\ UNCHANGED <<thread, inbox, visits, chan, tokens, auth, age, cli, lag>>

\* Drop tells a thread that listens to shut down.
Drop(p) ==
    /\ main[p] = "dropping"
    /\ thread' = [thread EXCEPT ![p] = IF @ = "listening" THEN "shutDown" ELSE @]
    /\ GoMain(p, "waking")
    /\ UNCHANGED <<inbox, visits, chan, code, tokens, vars>>

\* Mutant: the thread is told, but not woken.
ConnectLeftOut(p) ==
    /\ main[p] = "waking"
    /\ GoMain(p, "failed")
    /\ UNCHANGED <<thread, inbox, visits, chan, code, tokens, vars>>

\* Drop connects, so that the thread looks at what it was told; after the end of
\* the thread nothing listens, and the connection is refused.
Connect(p) ==
    /\ main[p] = "waking"
    /\ inbox' = [inbox EXCEPT ![p] = IF thread[p] = "ended" THEN @ ELSE Append(@, Wake)]
    /\ GoMain(p, "failed")
    /\ UNCHANGED <<thread, visits, chan, code, tokens, vars>>

\* The connection cannot be made though the thread listens, and Drop ignores it.
ConnectFails(p) ==
    /\ main[p] = "waking"
    /\ thread[p] # "ended"
    /\ lost < MaxLost
    /\ lost' = lost + 1
    /\ GoMain(p, "abandoned")
    /\ UNCHANGED <<thread, inbox, visits, chan, code, tokens, auth, age, cli, lag>>

(***************************************************************************)
(* Either login                                                            *)
(***************************************************************************)
\* The age of a code matters up to one tick after its lifetime.
CodesAge ==
    /\ code' = [p \in Client |-> IF code[p].issued
                                THEN [code[p] EXCEPT !.age = UpTo(@, CodeTtl + 1)]
                                ELSE code[p]]
    /\ UNCHANGED <<main, thread, inbox, visits, chan, tokens, vars>>

ThreadStep(p) == Serve(p) \/ Respond(p)
MainStep(p) ==
    \/ BuildUrl(p)
    \/ Receive(p)
    \/ Join(p)
    \/ Exchange(p)
    \/ LoseExchange(p)
    \/ Drop(p)
    \/ Connect(p)
    \/ ConnectFails(p)

ByDevice(p) == DeviceAuth(p) \/ Activate(p) \/ Step(p) \/ Lose(p)
ByBrowser(p) ==
    \/ StartServer(p)
    \/ MainStep(p)
    \/ Authorize(p)
    \/ \E q \in Client : Arrive(p, Redirect(q))
    \/ \E request \in {Denied(p), Stray, NoUrl} : Arrive(p, request)
    \/ ThreadStep(p)
    \/ AcceptFails(p)

Clock == IF device THEN Tick /\ UNCHANGED webVars ELSE CodesAge

RestartIssuer == IF device THEN Restart /\ UNCHANGED webVars ELSE CodesLost

LoginNext ==
    /\ UNCHANGED device
    /\ \/ device /\ UNCHANGED webVars /\ \E p \in Client : ByDevice(p)
       \/ ~device /\ \E p \in Client : ByBrowser(p)
       \/ Clock
       \/ RestartIssuer

LoginSpec == LoginInit /\ [][LoginNext]_loginVars

\* As in DeviceLogin; and the CLI's threads go on.  The user need not.
FairLoginSpec ==
    /\ LoginSpec
    /\ WF_loginVars(Clock /\ UNCHANGED device)
    /\ \A p \in Client :
          /\ WF_loginVars(device /\ Step(p) /\ UNCHANGED <<device, webVars>>)
          /\ WF_loginVars(~device /\ MainStep(p) /\ UNCHANGED device)
          /\ WF_loginVars(~device /\ ThreadStep(p) /\ UNCHANGED device)

(***************************************************************************)
(* Properties                                                              *)
(***************************************************************************)
\* The tokens of a browser login are those of its own approval, whatever else
\* reached the port and however other logins pruned and used codes (state in
\* callback_server.rs:58, the lookup in oidc.ts:245); only a code that came to
\* the issuer after its lifetime, or after a restart, yields the tokens of
\* somebody else.
TokensOfApproval ==
    \A p \in Client : main[p] = "granted" =>
        tokens[p] = p \/ code[p].age > CodeTtl \/ code[p].forgotten

\* Once the login gives up, or a request with a URL came, both threads end: the
\* one in wait() does not wait for a thread that is gone or never sends, and Drop
\* wakes the other, unless it cannot connect (callback_server.rs:98-126).
CallbackEnds ==
    \A p \in Client :
        \/ main[p] = "dropping"
        \/ \E i \in 1..Len(inbox[p]) : inbox[p][i] # NoUrl
        ~> main[p] \in MainEnded /\ (thread[p] = "ended" \/ main[p] = "abandoned")
=============================================================================
