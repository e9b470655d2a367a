---------------------- MODULE ArtifactLifecycle_proofs ----------------------
(***************************************************************************)
(* Proofs about ArtifactLifecycle: for any number of artifacts, tenants,   *)
(* handler slots and failures, and for both store layouts.                 *)
(***************************************************************************)
EXTENDS ArtifactLifecycle, TLAPS

(***************************************************************************)
(* The inductive invariant.  The safety properties are not inductive: they *)
(* speak of replies already sent, while what makes them true is what a     *)
(* handler knows at each of its phases.                                    *)
(***************************************************************************)
\* Before the create handler's save, nothing of the artifact is anywhere, and
\* no handler but a public lookup can be running on it.
NotYetSaved(a) ==
    /\ a \notin meta /\ a \notin pub /\ a \notin listed /\ a \notin uploading
    /\ data[a] = "absent"
    /\ acks[a] = {}
    /\ \A s \in Request :
          req[s].art = a => req[s].phase \in {"idle", "save", "lookupPublic"}

SavedOnce ==
    /\ \A a \in Artifact :
          record[a] = Unborn =>
             /\ NotYetSaved(a)
             /\ \A s \in Request : req[s].art = a => req[s].phase # "save"
    /\ \A r \in Request :
          req[r].phase = "save" =>
             /\ NotYetSaved(req[r].art)
             /\ \A s \in Request \ {r} :
                   req[s].art = req[r].art => req[s].phase # "save"

\* Present, or taken away by a delete that had listed it.
KeptOrListed(a) == a \in meta \/ a \in listed

DeletePhase == {"remove", "removePublic", "deleted"}

OwnerPhase == {"verify", "confirmed", "list"} \union DeletePhase

HandlerInv(r) ==
    LET h == req[r]  a == req[r].art IN
    /\ h.phase = "save" => record[a] # Unborn
    /\ h.phase = "savePublic" => IsPublic(a)
    /\ h.phase \in {"savePublic", "created"} \union OwnerPhase => KeptOrListed(a)
    /\ h.phase = "created" /\ IsPublic(a) /\ a \in meta => a \in pub
    /\ h.phase = "confirmed" /\ a \notin listed => data[a] # "absent"
    /\ h.sealed => /\ h.phase = "confirmed"
                   /\ urlLife[a] = 0 /\ a \notin uploading
                   /\ data[a] \in {"match", "absent"}
    /\ h.phase \in DeletePhase => a \in listed
    /\ h.phase = "remove" /\ a \notin raced /\ data[a] # "absent"
          => "data" \in h.todo
    /\ h.phase \in {"removePublic", "deleted"} =>
          a \notin meta /\ (a \notin raced => data[a] = "absent")
    /\ h.phase = "deleted" /\ a \notin raced => a \notin pub

ArtifactInv(a) ==
    /\ a \in pub => IsPublic(a) /\ KeptOrListed(a)
    /\ "created" \in acks[a] => KeptOrListed(a)
    /\ "created" \in acks[a] /\ IsPublic(a) /\ a \in meta => a \in pub
    /\ "confirmed" \in acks[a] => KeptOrListed(a)
    /\ "confirmed" \in acks[a] /\ a \notin listed => data[a] # "absent"
    /\ "sealed" \in acks[a] => /\ urlLife[a] = 0 /\ a \notin uploading
                               /\ data[a] \in {"match", "absent"}
    /\ "deleted" \in acks[a] =>
          /\ a \in listed /\ a \notin meta
          /\ a \notin raced => a \notin pub /\ data[a] = "absent"
    /\ a \in uploading => "created" \in acks[a]

IInv ==
    /\ TypeOK
    /\ SavedOnce
    /\ \A r \in Request : HandlerInv(r)
    /\ \A a \in Artifact : ArtifactInv(a)

(***************************************************************************)
(* What the three ways of updating a handler do to the slots.              *)
(***************************************************************************)
\* Starting a handler fills an idle slot and touches no other.
LEMMA BeginSlot ==
  ASSUME HandlersOK, NEW r \in Request, NEW p \in Phase, NEW a \in Artifact,
         NEW c \in Caller, Begin(r, p, a, c)
  PROVE  /\ HandlersOK'
         /\ req[r].phase = "idle"
         /\ req'[r] = At(p, a, c)
         /\ \A s \in Request \ {r} : req'[s] = req[s]
  <1>1. req' = [req EXCEPT ![r] = At(p, a, c)] /\ req[r].phase = "idle"
    BY DEF Begin
  <1>2. At(p, a, c) \in Handler /\ At(p, a, c).art = a
    BY DEF At, Handler, Object
  <1>3. req'[r] = At(p, a, c) /\ \A s \in Request \ {r} : req'[s] = req[s]
    BY <1>1 DEF HandlersOK
  <1>4. HandlersOK'
    BY <1>1, <1>2, <1>3 DEF HandlersOK
  <1> QED
    BY <1>1, <1>3, <1>4

\* Going to another phase keeps the rest of the handler.
LEMMA GotoSlot ==
  ASSUME HandlersOK, NEW r \in Request, NEW p \in Phase,
         req[r].phase # "idle", Goto(r, p)
  PROVE  /\ HandlersOK'
         /\ req'[r].phase = p
         /\ req'[r].art = req[r].art /\ req'[r].caller = req[r].caller
         /\ req'[r].todo = req[r].todo /\ req'[r].sealed = req[r].sealed
         /\ \A s \in Request \ {r} : req'[s] = req[s]
  <1> DEFINE h == [req[r] EXCEPT !.phase = p]
  <1>1. req' = [req EXCEPT ![r] = h]
    BY DEF Goto
  <1>2. /\ h \in Handler /\ h.phase = p
        /\ h.art = req[r].art /\ h.caller = req[r].caller
        /\ h.todo = req[r].todo /\ h.sealed = req[r].sealed
    BY DEF Handler, HandlersOK
  <1> HIDE DEF h
  <1>3. req'[r] = h /\ \A s \in Request \ {r} : req'[s] = req[s]
    BY <1>1 DEF HandlersOK
  <1>4. HandlersOK'
    BY <1>1, <1>2, <1>3 DEF HandlersOK
  <1> QED
    BY <1>2, <1>3, <1>4

\* Ending a handler leaves its slot idle.
LEMMA EndSlot ==
  ASSUME HandlersOK, NEW r \in Request, req' = [req EXCEPT ![r] = Idle]
  PROVE  /\ HandlersOK'
         /\ req'[r] = Idle
         /\ \A s \in Request \ {r} : req'[s] = req[s]
  <1>1. Idle \in Handler /\ Idle.phase = "idle"
    BY DEF Idle, At, Handler, Phase, Object, Caller
  <1>2. req'[r] = Idle /\ \A s \in Request \ {r} : req'[s] = req[s]
    BY DEF HandlersOK
  <1>3. HandlersOK'
    BY <1>1, <1>2 DEF HandlersOK
  <1> QED
    BY <1>2, <1>3

\* Type correctness is preserved by every step.
LEMMA TypeStep ==
  ASSUME TypeOK, [Next]_vars
  PROVE  TypeOK'
  <1> USE ConstantAssumption DEF TypeOK, store, history
  <1>1. ASSUME NEW r \in Request, NEW c \in Customer, NEW a \in Artifact,
               NEW v \in {"public", "private"},
               CreateStart(r, c, a, v)
        PROVE  TypeOK'
    <2>1. HandlersOK'
      BY <1>1, BeginSlot DEF CreateStart, Owns, Phase, ReplyPhase, Caller
    <2>2. StoreOK'
      BY <1>1
         DEF CreateStart, HandlersOK, StoreOK, Content, Record, ReplyPhase,
             Ack
    <2> QED
      BY <2>1, <2>2
  <1>2. ASSUME NEW r \in Request, NEW c \in Customer, NEW a \in Artifact,
               ConfirmStart(r, c, a)
        PROVE  TypeOK'
    <2>1. HandlersOK'
      BY <1>2, BeginSlot DEF ConfirmStart, Owns, Phase, ReplyPhase, Caller
    <2>2. StoreOK'
      BY <1>2
         DEF ConfirmStart, HandlersOK, StoreOK, Content, Record, ReplyPhase,
             Ack
    <2> QED
      BY <2>1, <2>2
  <1>3. ASSUME NEW r \in Request, NEW c \in Customer, NEW a \in Artifact,
               DeleteStart(r, c, a)
        PROVE  TypeOK'
    <2>1. HandlersOK'
      BY <1>3, BeginSlot DEF DeleteStart, Owns, Phase, ReplyPhase, Caller
    <2>2. StoreOK'
      BY <1>3
         DEF DeleteStart, HandlersOK, StoreOK, Content, Record, ReplyPhase,
             Ack
    <2> QED
      BY <2>1, <2>2
  <1>4. ASSUME NEW r \in Request, NEW c \in Caller, NEW a \in Artifact,
               DownloadStart(r, c, a)
        PROVE  TypeOK'
    <2>1. HandlersOK'
      BY <1>4, BeginSlot DEF DownloadStart, Owns, Phase, ReplyPhase, Caller
    <2>2. StoreOK'
      BY <1>4
         DEF DownloadStart, HandlersOK, StoreOK, Content, Record, ReplyPhase,
             Ack
    <2> QED
      BY <2>1, <2>2
  <1>5. ASSUME NEW r \in Request,
               CreateSave(r)
        PROVE  TypeOK'
    <2>1. HandlersOK'
      BY <1>5, GotoSlot DEF CreateSave, Phase, ReplyPhase, IsPublic
    <2>2. StoreOK'
      BY <1>5
         DEF CreateSave, HandlersOK, StoreOK, Content, Record, ReplyPhase, Ack
    <2> QED
      BY <2>1, <2>2
  <1>6. ASSUME NEW r \in Request,
               CreateSavePublic(r)
        PROVE  TypeOK'
    <2>1. HandlersOK'
      BY <1>6, GotoSlot DEF CreateSavePublic, Phase, ReplyPhase, IsPublic
    <2>2. StoreOK'
      BY <1>6
         DEF CreateSavePublic, HandlersOK, StoreOK, Content, Record,
             ReplyPhase, Ack
    <2> QED
      BY <2>1, <2>2
  <1>7. ASSUME NEW r \in Request,
               ConfirmVerify(r)
        PROVE  TypeOK'
    <2> DEFINE dead == urlLife[req[r].art] = 0 /\ req[r].art \notin uploading
               h == [req[r] EXCEPT !.phase = "confirmed", !.sealed = dead]
    <2>1. CASE data[req[r].art] = "match"
      <3>1. req' = [req EXCEPT ![r] = h] /\ req[r].phase # "idle"
        BY <1>7, <2>1 DEF ConfirmVerify
      <3>2. dead \in BOOLEAN
        OBVIOUS
      <3> HIDE DEF dead
      <3>3. h \in Handler /\ h.art = req[r].art
        BY <3>2 DEF HandlersOK, Handler, Phase, ReplyPhase
      <3> HIDE DEF h
      <3>4. HandlersOK'
        BY <3>1, <3>3 DEF HandlersOK
      <3> QED
        BY <1>7, <3>4 DEF ConfirmVerify, StoreOK
    <2>2. CASE data[req[r].art] # "match"
      BY <1>7, <2>2, EndSlot DEF ConfirmVerify, StoreOK
    <2> QED
      BY <2>1, <2>2
  <1>8. ASSUME NEW r \in Request,
               DownloadPublic(r)
        PROVE  TypeOK'
    <2>1. CASE req[r].art \in pub /\ CanAccess(req[r].caller, req[r].art)
      BY <1>8, <2>1
         DEF DownloadPublic, HandlersOK, Handler, Phase, ReplyPhase, StoreOK
    <2>2. CASE ~(req[r].art \in pub /\ CanAccess(req[r].caller, req[r].art))
      BY <1>8, <2>2, EndSlot DEF DownloadPublic, StoreOK
    <2> QED
      BY <2>1, <2>2
  <1>9. ASSUME NEW r \in Request,
               DeleteList(r)
        PROVE  TypeOK'
    <2>1. Listing(req[r].art) \subseteq Object
      BY DEF Listing, Object
    <2>2. HandlersOK'
      BY <1>9, <2>1 DEF DeleteList, HandlersOK, Handler, Phase, ReplyPhase
    <2> QED
      BY <1>9, <2>2 DEF DeleteList, HandlersOK, StoreOK
  <1>10. ASSUME NEW r \in Request,
               DeleteObject(r)
        PROVE  TypeOK'
    <2>1. HandlersOK'
      BY <1>10 DEF DeleteObject, HandlersOK, Handler
    <2>2. StoreOK'
      BY <1>10 DEF DeleteObject, HandlersOK, StoreOK, Content
    <2> QED
      BY <2>1, <2>2
  <1>11. ASSUME NEW r \in Request,
               DeleteMeta(r)
        PROVE  TypeOK'
    <2>1. HandlersOK'
      BY <1>11, GotoSlot DEF DeleteMeta, Phase, ReplyPhase, IsPublic
    <2>2. StoreOK'
      BY <1>11
         DEF DeleteMeta, HandlersOK, StoreOK, Content, Record, ReplyPhase, Ack
    <2> QED
      BY <2>1, <2>2
  <1>12. ASSUME NEW r \in Request,
               DeletePublic(r)
        PROVE  TypeOK'
    <2>1. HandlersOK'
      BY <1>12, GotoSlot DEF DeletePublic, Phase, ReplyPhase, IsPublic
    <2>2. StoreOK'
      BY <1>12
         DEF DeletePublic, HandlersOK, StoreOK, Content, Record, ReplyPhase,
             Ack
    <2> QED
      BY <2>1, <2>2
  <1>13. ASSUME NEW r \in Request,
               Reply(r)
        PROVE  TypeOK'
    <2>1. HandlersOK'
      BY <1>13, EndSlot DEF Reply
    <2>2. StoreOK'
      BY <1>13 DEF Reply, HandlersOK, StoreOK, Content, Record, ReplyPhase, Ack
    <2> QED
      BY <2>1, <2>2
  <1>14. ASSUME NEW r \in Request,
               Fail(r)
        PROVE  TypeOK'
    <2>1. HandlersOK'
      BY <1>14, EndSlot DEF Fail
    <2>2. StoreOK'
      BY <1>14 DEF Fail, HandlersOK, StoreOK, Content, Record, ReplyPhase, Ack
    <2> QED
      BY <2>1, <2>2
  <1>15. ASSUME NEW a \in Artifact,
               PutStart(a)
        PROVE  TypeOK'
    <2>1. HandlersOK'
      BY <1>15 DEF PutStart, HandlersOK
    <2>2. StoreOK'
      BY <1>15
         DEF PutStart, HandlersOK, StoreOK, Content, Record, ReplyPhase, Ack
    <2> QED
      BY <2>1, <2>2
  <1>16. ASSUME NEW a \in Artifact, NEW content \in {"match", "mismatch"},
               PutStore(a, content)
        PROVE  TypeOK'
    <2>1. HandlersOK'
      BY <1>16 DEF PutStore, HandlersOK
    <2>2. StoreOK'
      BY <1>16
         DEF PutStore, HandlersOK, StoreOK, Content, Record, ReplyPhase, Ack
    <2> QED
      BY <2>1, <2>2
  <1>17. ASSUME NEW a \in Artifact,
               PutAbort(a)
        PROVE  TypeOK'
    <2>1. HandlersOK'
      BY <1>17 DEF PutAbort, HandlersOK
    <2>2. StoreOK'
      BY <1>17
         DEF PutAbort, HandlersOK, StoreOK, Content, Record, ReplyPhase, Ack
    <2> QED
      BY <2>1, <2>2
  <1>18. CASE Tick
    <2>1. HandlersOK'
      BY <1>18 DEF Tick, HandlersOK
    <2>2. StoreOK'
      BY <1>18 DEF Tick, HandlersOK, StoreOK, Content, Record, ReplyPhase, Ack
    <2> QED
      BY <2>1, <2>2
  <1>19. CASE Crash
    <2>1. HandlersOK'
      BY <1>19 DEF Crash, Idle, At, HandlersOK, Handler, Phase, Object, Caller
    <2>2. StoreOK'
      BY <1>19 DEF Crash, HandlersOK, StoreOK, Content, Record, ReplyPhase, Ack
    <2> QED
      BY <2>1, <2>2
  <1>20. CASE UNCHANGED vars
    BY <1>20 DEF vars, StoreOK, HandlersOK
  <1> QED
    BY <1>1, <1>2, <1>3, <1>4, <1>5, <1>6, <1>7, <1>8, <1>9, <1>10, <1>11,
       <1>12, <1>13, <1>14, <1>15, <1>16, <1>17, <1>18, <1>19, <1>20
       DEF Next

\* A step keeps what every handler knows.
LEMMA HandlerStep ==
  ASSUME IInv, [Next]_vars
  PROVE  \A s \in Request : HandlerInv(s)'
  <1> SUFFICES ASSUME NEW s \in Request PROVE HandlerInv(s)'
    OBVIOUS
  <1> USE ConstantAssumption DEF IInv, TypeOK, store, history
  <1>1. ASSUME NEW r \in Request, NEW c \in Customer, NEW a \in Artifact,
               NEW v \in {"public", "private"},
               CreateStart(r, c, a, v)
        PROVE  HandlerInv(s)'
    <2>1. /\ req'[r] = At("save", a, c)
          /\ \A t \in Request \ {r} : req'[t] = req[t]
      BY <1>1, BeginSlot DEF CreateStart, Phase, ReplyPhase, Caller
    <2>2. CASE s = r
      BY <1>1, <2>1, <2>2
         DEF CreateStart, HandlerInv, KeptOrListed, OwnerPhase, DeletePhase,
             IsPublic, At, Idle, Owns, SavedOnce, NotYetSaved, StoreOK,
             HandlersOK, Unborn
    <2>3. CASE s # r
      BY <1>1, <2>1, <2>3
         DEF CreateStart, HandlerInv, KeptOrListed, OwnerPhase, DeletePhase,
             IsPublic, SavedOnce, NotYetSaved, StoreOK, HandlersOK
    <2> QED
      BY <2>2, <2>3
  <1>2. ASSUME NEW r \in Request, NEW c \in Customer, NEW a \in Artifact,
               ConfirmStart(r, c, a)
        PROVE  HandlerInv(s)'
    <2>1. /\ req'[r] = At("verify", a, c)
          /\ \A t \in Request \ {r} : req'[t] = req[t]
      BY <1>2, BeginSlot DEF ConfirmStart, Phase, ReplyPhase, Caller
    <2>2. CASE s = r
      BY <1>2, <2>1, <2>2
         DEF ConfirmStart, HandlerInv, KeptOrListed, OwnerPhase, DeletePhase,
             IsPublic, At, Idle, Owns, SavedOnce, NotYetSaved, StoreOK,
             HandlersOK, Unborn
    <2>3. CASE s # r
      BY <1>2, <2>1, <2>3
         DEF ConfirmStart, HandlerInv, KeptOrListed, OwnerPhase, DeletePhase,
             IsPublic, SavedOnce, NotYetSaved, StoreOK, HandlersOK
    <2> QED
      BY <2>2, <2>3
  <1>3. ASSUME NEW r \in Request, NEW c \in Customer, NEW a \in Artifact,
               DeleteStart(r, c, a)
        PROVE  HandlerInv(s)'
    <2>1. /\ req'[r] = At("list", a, c)
          /\ \A t \in Request \ {r} : req'[t] = req[t]
      BY <1>3, BeginSlot DEF DeleteStart, Phase, ReplyPhase, Caller
    <2>2. CASE s = r
      BY <1>3, <2>1, <2>2
         DEF DeleteStart, HandlerInv, KeptOrListed, OwnerPhase, DeletePhase,
             IsPublic, At, Idle, Owns, SavedOnce, NotYetSaved, StoreOK,
             HandlersOK, Unborn
    <2>3. CASE s # r
      BY <1>3, <2>1, <2>3
         DEF DeleteStart, HandlerInv, KeptOrListed, OwnerPhase, DeletePhase,
             IsPublic, SavedOnce, NotYetSaved, StoreOK, HandlersOK
    <2> QED
      BY <2>2, <2>3
  <1>4. ASSUME NEW r \in Request, NEW c \in Caller, NEW a \in Artifact,
               DownloadStart(r, c, a)
        PROVE  HandlerInv(s)'
    <2>1. /\ \/ Owns(c, a) /\ req'[r] = At("granted", a, c)
             \/ req'[r] = At("lookupPublic", a, c)
          /\ \A t \in Request \ {r} : req'[t] = req[t]
      BY <1>4, BeginSlot DEF DownloadStart, Phase, ReplyPhase, Caller
    <2>2. CASE s = r
      BY <1>4, <2>1, <2>2
         DEF DownloadStart, HandlerInv, KeptOrListed, OwnerPhase, DeletePhase,
             IsPublic, At, Idle, Owns, SavedOnce, NotYetSaved, StoreOK,
             HandlersOK, Unborn
    <2>3. CASE s # r
      BY <1>4, <2>1, <2>3
         DEF DownloadStart, HandlerInv, KeptOrListed, OwnerPhase, DeletePhase,
             IsPublic, SavedOnce, NotYetSaved, StoreOK, HandlersOK
    <2> QED
      BY <2>2, <2>3
  <1>5. ASSUME NEW r \in Request,
               CreateSave(r)
        PROVE  HandlerInv(s)'
    <2>1. /\ req'[r].phase = (IF IsPublic(req[r].art) THEN "savePublic" ELSE "created")
          /\ req'[r].art = req[r].art
          /\ req'[r].caller = req[r].caller
          /\ req'[r].sealed = req[r].sealed
          /\ \A t \in Request \ {r} : req'[t] = req[t]
      BY <1>5, GotoSlot DEF CreateSave, Phase, ReplyPhase
    <2>2. CASE s = r
      <3>1. HandlerInv(r) /\ ArtifactInv(req[r].art)
        BY <1>5 DEF CreateSave, HandlersOK
      <3> QED
        BY <1>5, <2>1, <2>2, <3>1
           DEF CreateSave, HandlerInv, KeptOrListed, OwnerPhase, DeletePhase,
               IsPublic, ArtifactInv, SavedOnce, NotYetSaved, StoreOK
    <2>3. CASE s # r
      BY <1>5, <2>1, <2>3
         DEF CreateSave, HandlerInv, KeptOrListed, OwnerPhase, DeletePhase,
             IsPublic, SavedOnce, NotYetSaved, StoreOK, HandlersOK
    <2> QED
      BY <2>2, <2>3
  <1>6. ASSUME NEW r \in Request,
               CreateSavePublic(r)
        PROVE  HandlerInv(s)'
    <2>1. /\ req'[r].phase = ("created")
          /\ req'[r].art = req[r].art
          /\ req'[r].caller = req[r].caller
          /\ req'[r].sealed = req[r].sealed
          /\ \A t \in Request \ {r} : req'[t] = req[t]
      BY <1>6, GotoSlot DEF CreateSavePublic, Phase, ReplyPhase
    <2>2. CASE s = r
      <3>1. HandlerInv(r) /\ ArtifactInv(req[r].art)
        BY <1>6 DEF CreateSavePublic, HandlersOK
      <3> QED
        BY <1>6, <2>1, <2>2, <3>1
           DEF CreateSavePublic, HandlerInv, KeptOrListed, OwnerPhase,
               DeletePhase, IsPublic, ArtifactInv, SavedOnce, NotYetSaved,
               StoreOK
    <2>3. CASE s # r
      BY <1>6, <2>1, <2>3
         DEF CreateSavePublic, HandlerInv, KeptOrListed, OwnerPhase,
             DeletePhase, IsPublic, SavedOnce, NotYetSaved, StoreOK,
             HandlersOK
    <2> QED
      BY <2>2, <2>3
  <1>7. ASSUME NEW r \in Request,
               ConfirmVerify(r)
        PROVE  HandlerInv(s)'
    <2>1. CASE s = r
      BY <1>7, <2>1
         DEF ConfirmVerify, HandlerInv, KeptOrListed, OwnerPhase, DeletePhase,
             IsPublic, At, Idle, StoreOK, HandlersOK, Handler, Content,
             Listing, First, ArtifactInv
    <2>2. CASE s # r
      BY <1>7, <2>2
         DEF ConfirmVerify, HandlerInv, KeptOrListed, OwnerPhase, DeletePhase,
             IsPublic, StoreOK, HandlersOK, First
    <2> QED
      BY <2>1, <2>2
  <1>8. ASSUME NEW r \in Request,
               DownloadPublic(r)
        PROVE  HandlerInv(s)'
    <2>1. CASE s = r
      BY <1>8, <2>1
         DEF DownloadPublic, HandlerInv, KeptOrListed, OwnerPhase,
             DeletePhase, IsPublic, At, Idle, StoreOK, HandlersOK, Handler,
             Content, Listing, First, ArtifactInv
    <2>2. CASE s # r
      BY <1>8, <2>2
         DEF DownloadPublic, HandlerInv, KeptOrListed, OwnerPhase,
             DeletePhase, IsPublic, StoreOK, HandlersOK, First
    <2> QED
      BY <2>1, <2>2
  <1>9. ASSUME NEW r \in Request,
               DeleteList(r)
        PROVE  HandlerInv(s)'
    <2>1. CASE s = r
      BY <1>9, <2>1
         DEF DeleteList, HandlerInv, KeptOrListed, OwnerPhase, DeletePhase,
             IsPublic, At, Idle, StoreOK, HandlersOK, Handler, Content,
             Listing, First, ArtifactInv
    <2>2. CASE s # r
      BY <1>9, <2>2
         DEF DeleteList, HandlerInv, KeptOrListed, OwnerPhase, DeletePhase,
             IsPublic, StoreOK, HandlersOK, First
    <2> QED
      BY <2>1, <2>2
  <1>10. ASSUME NEW r \in Request,
               DeleteObject(r)
        PROVE  HandlerInv(s)'
    <2>1. CASE s = r
      BY <1>10, <2>1
         DEF DeleteObject, HandlerInv, KeptOrListed, OwnerPhase, DeletePhase,
             IsPublic, At, Idle, StoreOK, HandlersOK, Handler, Content,
             Listing, First, ArtifactInv
    <2>2. CASE s # r
      BY <1>10, <2>2
         DEF DeleteObject, HandlerInv, KeptOrListed, OwnerPhase, DeletePhase,
             IsPublic, StoreOK, HandlersOK, First
    <2> QED
      BY <2>1, <2>2
  <1>11. ASSUME NEW r \in Request,
               DeleteMeta(r)
        PROVE  HandlerInv(s)'
    <2>1. /\ req'[r].phase = (IF IsPublic(req[r].art) THEN "removePublic" ELSE "deleted")
          /\ req'[r].art = req[r].art
          /\ req'[r].caller = req[r].caller
          /\ req'[r].sealed = req[r].sealed
          /\ \A t \in Request \ {r} : req'[t] = req[t]
      BY <1>11, GotoSlot DEF DeleteMeta, Phase, ReplyPhase
    <2>2. CASE s = r
      <3>1. HandlerInv(r) /\ ArtifactInv(req[r].art)
        BY <1>11 DEF DeleteMeta, HandlersOK
      <3> QED
        BY <1>11, <2>1, <2>2, <3>1
           DEF DeleteMeta, HandlerInv, KeptOrListed, OwnerPhase, DeletePhase,
               IsPublic, ArtifactInv, SavedOnce, NotYetSaved, StoreOK
    <2>3. CASE s # r
      BY <1>11, <2>1, <2>3
         DEF DeleteMeta, HandlerInv, KeptOrListed, OwnerPhase, DeletePhase,
             IsPublic, SavedOnce, NotYetSaved, StoreOK, HandlersOK
    <2> QED
      BY <2>2, <2>3
  <1>12. ASSUME NEW r \in Request,
               DeletePublic(r)
        PROVE  HandlerInv(s)'
    <2>1. /\ req'[r].phase = ("deleted")
          /\ req'[r].art = req[r].art
          /\ req'[r].caller = req[r].caller
          /\ req'[r].sealed = req[r].sealed
          /\ \A t \in Request \ {r} : req'[t] = req[t]
      BY <1>12, GotoSlot DEF DeletePublic, Phase, ReplyPhase
    <2>2. CASE s = r
      <3>1. HandlerInv(r) /\ ArtifactInv(req[r].art)
        BY <1>12 DEF DeletePublic, HandlersOK
      <3> QED
        BY <1>12, <2>1, <2>2, <3>1
           DEF DeletePublic, HandlerInv, KeptOrListed, OwnerPhase,
               DeletePhase, IsPublic, ArtifactInv, SavedOnce, NotYetSaved,
               StoreOK
    <2>3. CASE s # r
      BY <1>12, <2>1, <2>3
         DEF DeletePublic, HandlerInv, KeptOrListed, OwnerPhase, DeletePhase,
             IsPublic, SavedOnce, NotYetSaved, StoreOK, HandlersOK
    <2> QED
      BY <2>2, <2>3
  <1>13. ASSUME NEW r \in Request,
               Reply(r)
        PROVE  HandlerInv(s)'
    <2>1. CASE s = r
      BY <1>13, <2>1
         DEF Reply, HandlerInv, KeptOrListed, OwnerPhase, DeletePhase,
             IsPublic, At, Idle, StoreOK, HandlersOK, Handler, Content,
             Listing, First, ArtifactInv
    <2>2. CASE s # r
      BY <1>13, <2>2
         DEF Reply, HandlerInv, KeptOrListed, OwnerPhase, DeletePhase,
             IsPublic, StoreOK, HandlersOK, First
    <2> QED
      BY <2>1, <2>2
  <1>14. ASSUME NEW r \in Request,
               Fail(r)
        PROVE  HandlerInv(s)'
    <2>1. /\ req'[r] = Idle
          /\ \A t \in Request \ {r} : req'[t] = req[t]
      BY <1>14, EndSlot DEF Fail, Phase, ReplyPhase, Caller
    <2>2. CASE s = r
      BY <1>14, <2>1, <2>2
         DEF Fail, HandlerInv, KeptOrListed, OwnerPhase, DeletePhase,
             IsPublic, At, Idle, Owns, SavedOnce, NotYetSaved, StoreOK,
             HandlersOK, Unborn
    <2>3. CASE s # r
      BY <1>14, <2>1, <2>3
         DEF Fail, HandlerInv, KeptOrListed, OwnerPhase, DeletePhase,
             IsPublic, SavedOnce, NotYetSaved, StoreOK, HandlersOK
    <2> QED
      BY <2>2, <2>3
  <1>15. ASSUME NEW a \in Artifact,
               PutStart(a)
        PROVE  HandlerInv(s)'
    BY <1>15
       DEF PutStart, HandlerInv, KeptOrListed, OwnerPhase, DeletePhase,
           IsPublic, StoreOK, HandlersOK, ArtifactInv, At, Idle
  <1>16. ASSUME NEW a \in Artifact, NEW content \in {"match", "mismatch"},
               PutStore(a, content)
        PROVE  HandlerInv(s)'
    BY <1>16
       DEF PutStore, HandlerInv, KeptOrListed, OwnerPhase, DeletePhase,
           IsPublic, StoreOK, HandlersOK, ArtifactInv, At, Idle
  <1>17. ASSUME NEW a \in Artifact,
               PutAbort(a)
        PROVE  HandlerInv(s)'
    BY <1>17
       DEF PutAbort, HandlerInv, KeptOrListed, OwnerPhase, DeletePhase,
           IsPublic, StoreOK, HandlersOK, ArtifactInv, At, Idle
  <1>18. CASE Tick
    BY <1>18
       DEF Tick, HandlerInv, KeptOrListed, OwnerPhase, DeletePhase, IsPublic,
           StoreOK, HandlersOK, ArtifactInv, At, Idle
  <1>19. CASE Crash
    BY <1>19
       DEF Crash, HandlerInv, KeptOrListed, OwnerPhase, DeletePhase, IsPublic,
           StoreOK, HandlersOK, ArtifactInv, At, Idle
  <1>20. CASE UNCHANGED vars
    BY <1>20
       DEF vars, HandlerInv, KeptOrListed, OwnerPhase, DeletePhase, IsPublic
  <1> QED
    BY <1>1, <1>2, <1>3, <1>4, <1>5, <1>6, <1>7, <1>8, <1>9, <1>10, <1>11,
       <1>12, <1>13, <1>14, <1>15, <1>16, <1>17, <1>18, <1>19, <1>20
       DEF Next

\* A step keeps an id from being saved twice, and nothing of it is there before.
LEMMA SavedStep ==
  ASSUME IInv, [Next]_vars
  PROVE  SavedOnce'
  <1> USE ConstantAssumption DEF IInv, TypeOK, store, history
  <1>1. ASSUME NEW r \in Request, NEW c \in Customer, NEW a \in Artifact,
               NEW v \in {"public", "private"},
               CreateStart(r, c, a, v)
        PROVE  SavedOnce'
    <2>1. /\ req'[r] = At("save", a, c)
          /\ \A t \in Request \ {r} : req'[t] = req[t]
      BY <1>1, BeginSlot DEF CreateStart, Phase, ReplyPhase, Caller
    <2>2. ASSUME NEW b \in Artifact, NotYetSaved(b)
          PROVE  NotYetSaved(b)'
      BY <1>1, <2>1, <2>2 DEF CreateStart, NotYetSaved, At, StoreOK
    <2>3. ASSUME NEW b \in Artifact, record'[b] = Unborn
          PROVE  NotYetSaved(b)' /\ \A s \in Request : req'[s].art = b => req'[s].phase # "save"
      <3>1. b # a /\ record[b] = Unborn
        BY <1>1, <2>3 DEF CreateStart, StoreOK, Unborn
      <3> QED
        BY <2>1, <2>2, <3>1 DEF SavedOnce, At
    <2>4. ASSUME NEW t \in Request, NEW b \in Artifact,
                 req'[t].phase = "save", req'[t].art = b
          PROVE  /\ NotYetSaved(b)'
                 /\ \A s \in Request \ {t} :
                       req'[s].art = b => req'[s].phase # "save"
      <3>1. CASE t = r
        <4>1. b = a /\ NotYetSaved(a)
          BY <1>1, <2>1, <2>4, <3>1 DEF CreateStart, SavedOnce, At
        <4> QED
          BY <1>1, <2>1, <2>2, <3>1, <4>1 DEF CreateStart, SavedOnce
      <3>2. CASE t # r
        <4>1. req[t].phase = "save" /\ req[t].art = b
          BY <2>1, <2>4, <3>2
        <4>2. b # a
          BY <1>1, <4>1 DEF CreateStart, SavedOnce
        <4> QED
          BY <2>1, <2>2, <4>1, <4>2 DEF SavedOnce, At
      <3> QED
        BY <3>1, <3>2
    <2>5. HandlersOK'
      BY TypeStep
    <2> QED
      BY <2>3, <2>4, <2>5 DEF SavedOnce, HandlersOK
  <1>2. ASSUME NEW r \in Request, NEW c \in Customer, NEW a \in Artifact,
               ConfirmStart(r, c, a)
        PROVE  SavedOnce'
    <2>1. /\ req'[r] = At("verify", a, c)
          /\ \A t \in Request \ {r} : req'[t] = req[t]
      BY <1>2, BeginSlot DEF ConfirmStart, Phase, ReplyPhase, Caller
    <2>2. ASSUME NEW b \in Artifact, NotYetSaved(b)
          PROVE  NotYetSaved(b)'
      BY <1>2, <2>1, <2>2 DEF ConfirmStart, NotYetSaved, At, StoreOK, Owns
    <2> QED
      BY <1>2, <2>1, <2>2
         DEF ConfirmStart, SavedOnce, At, StoreOK, HandlersOK, Owns
  <1>3. ASSUME NEW r \in Request, NEW c \in Customer, NEW a \in Artifact,
               DeleteStart(r, c, a)
        PROVE  SavedOnce'
    <2>1. /\ req'[r] = At("list", a, c)
          /\ \A t \in Request \ {r} : req'[t] = req[t]
      BY <1>3, BeginSlot DEF DeleteStart, Phase, ReplyPhase, Caller
    <2>2. ASSUME NEW b \in Artifact, NotYetSaved(b)
          PROVE  NotYetSaved(b)'
      BY <1>3, <2>1, <2>2 DEF DeleteStart, NotYetSaved, At, StoreOK, Owns
    <2> QED
      BY <1>3, <2>1, <2>2
         DEF DeleteStart, SavedOnce, At, StoreOK, HandlersOK, Owns
  <1>4. ASSUME NEW r \in Request, NEW c \in Caller, NEW a \in Artifact,
               DownloadStart(r, c, a)
        PROVE  SavedOnce'
    <2>1. /\ \/ Owns(c, a) /\ req'[r] = At("granted", a, c)
             \/ req'[r] = At("lookupPublic", a, c)
          /\ \A t \in Request \ {r} : req'[t] = req[t]
      BY <1>4, BeginSlot DEF DownloadStart, Phase, ReplyPhase, Caller
    <2>2. ASSUME NEW b \in Artifact, NotYetSaved(b)
          PROVE  NotYetSaved(b)'
      BY <1>4, <2>1, <2>2 DEF DownloadStart, NotYetSaved, At, StoreOK, Owns
    <2> QED
      BY <1>4, <2>1, <2>2
         DEF DownloadStart, SavedOnce, At, StoreOK, HandlersOK, Owns
  <1>5. ASSUME NEW r \in Request,
               CreateSave(r)
        PROVE  SavedOnce'
    <2>1. /\ req'[r].phase = (IF IsPublic(req[r].art) THEN "savePublic" ELSE "created")
          /\ req'[r].art = req[r].art
          /\ \A t \in Request \ {r} : req'[t] = req[t]
      BY <1>5, GotoSlot DEF CreateSave, Phase, ReplyPhase
    <2> QED
      BY <1>5, <2>1
         DEF CreateSave, SavedOnce, NotYetSaved, StoreOK, HandlersOK, Unborn
  <1>6. ASSUME NEW r \in Request,
               CreateSavePublic(r)
        PROVE  SavedOnce'
    <2>1. /\ req'[r].phase = ("created")
          /\ req'[r].art = req[r].art
          /\ \A t \in Request \ {r} : req'[t] = req[t]
      BY <1>6, GotoSlot DEF CreateSavePublic, Phase, ReplyPhase
    <2> QED
      BY <1>6, <2>1
         DEF CreateSavePublic, SavedOnce, NotYetSaved, StoreOK, HandlersOK,
             Unborn
  <1>7. ASSUME NEW r \in Request,
               ConfirmVerify(r)
        PROVE  SavedOnce'
    BY <1>7
       DEF ConfirmVerify, SavedOnce, NotYetSaved, StoreOK, HandlersOK, At,
           Idle, First, Handler
  <1>8. ASSUME NEW r \in Request,
               DownloadPublic(r)
        PROVE  SavedOnce'
    BY <1>8
       DEF DownloadPublic, SavedOnce, NotYetSaved, StoreOK, HandlersOK, At,
           Idle, First, Handler
  <1>9. ASSUME NEW r \in Request,
               DeleteList(r)
        PROVE  SavedOnce'
    BY <1>9
       DEF DeleteList, SavedOnce, NotYetSaved, StoreOK, HandlersOK, At, Idle,
           First, Handler
  <1>10. ASSUME NEW r \in Request,
               DeleteObject(r)
        PROVE  SavedOnce'
    BY <1>10
       DEF DeleteObject, SavedOnce, NotYetSaved, StoreOK, HandlersOK, At,
           Idle, First, Handler
  <1>11. ASSUME NEW r \in Request,
               DeleteMeta(r)
        PROVE  SavedOnce'
    <2>1. /\ req'[r].phase = (IF IsPublic(req[r].art) THEN "removePublic" ELSE "deleted")
          /\ req'[r].art = req[r].art
          /\ \A t \in Request \ {r} : req'[t] = req[t]
      BY <1>11, GotoSlot DEF DeleteMeta, Phase, ReplyPhase
    <2> QED
      BY <1>11, <2>1
         DEF DeleteMeta, SavedOnce, NotYetSaved, StoreOK, HandlersOK, Unborn
  <1>12. ASSUME NEW r \in Request,
               DeletePublic(r)
        PROVE  SavedOnce'
    <2>1. /\ req'[r].phase = ("deleted")
          /\ req'[r].art = req[r].art
          /\ \A t \in Request \ {r} : req'[t] = req[t]
      BY <1>12, GotoSlot DEF DeletePublic, Phase, ReplyPhase
    <2> QED
      BY <1>12, <2>1
         DEF DeletePublic, SavedOnce, NotYetSaved, StoreOK, HandlersOK, Unborn
  <1>13. ASSUME NEW r \in Request,
               Reply(r)
        PROVE  SavedOnce'
    <2>1. /\ req'[r] = Idle
          /\ \A t \in Request \ {r} : req'[t] = req[t]
      BY <1>13, EndSlot DEF Reply
    <2>2. ASSUME NEW b \in Artifact, NotYetSaved(b)
          PROVE  NotYetSaved(b)'
      BY <1>13, <2>1, <2>2
         DEF Reply, NotYetSaved, At, StoreOK, Idle, HandlersOK, ReplyPhase
    <2> QED
      BY <1>13, <2>1, <2>2
         DEF Reply, SavedOnce, At, StoreOK, HandlersOK, Idle, HandlersOK,
             ReplyPhase
  <1>14. ASSUME NEW r \in Request,
               Fail(r)
        PROVE  SavedOnce'
    <2>1. /\ req'[r] = Idle
          /\ \A t \in Request \ {r} : req'[t] = req[t]
      BY <1>14, EndSlot DEF Fail
    <2> QED
      BY <1>14, <2>1 DEF Fail, SavedOnce, NotYetSaved, Idle, At
  <1>15. ASSUME NEW a \in Artifact,
               PutStart(a)
        PROVE  SavedOnce'
    BY <1>15
       DEF PutStart, SavedOnce, NotYetSaved, StoreOK, HandlersOK, At, Idle,
           First, Handler
  <1>16. ASSUME NEW a \in Artifact, NEW content \in {"match", "mismatch"},
               PutStore(a, content)
        PROVE  SavedOnce'
    BY <1>16
       DEF PutStore, SavedOnce, NotYetSaved, StoreOK, HandlersOK, At, Idle,
           First, Handler
  <1>17. ASSUME NEW a \in Artifact,
               PutAbort(a)
        PROVE  SavedOnce'
    BY <1>17
       DEF PutAbort, SavedOnce, NotYetSaved, StoreOK, HandlersOK, At, Idle,
           First, Handler
  <1>18. CASE Tick
    BY <1>18
       DEF Tick, SavedOnce, NotYetSaved, StoreOK, HandlersOK, At, Idle, First,
           Handler
  <1>19. CASE Crash
    BY <1>19
       DEF Crash, SavedOnce, NotYetSaved, StoreOK, HandlersOK, At, Idle,
           First, Handler
  <1>20. CASE UNCHANGED vars
    BY <1>20 DEF vars, SavedOnce, NotYetSaved
  <1> QED
    BY <1>1, <1>2, <1>3, <1>4, <1>5, <1>6, <1>7, <1>8, <1>9, <1>10, <1>11,
       <1>12, <1>13, <1>14, <1>15, <1>16, <1>17, <1>18, <1>19, <1>20
       DEF Next

\* A step keeps what holds of every artifact.
LEMMA ArtifactStep ==
  ASSUME IInv, [Next]_vars
  PROVE  \A b \in Artifact : ArtifactInv(b)'
  <1> SUFFICES ASSUME NEW b \in Artifact PROVE ArtifactInv(b)'
    OBVIOUS
  <1> USE ConstantAssumption DEF IInv, TypeOK, store, history
  <1>1. ASSUME NEW r \in Request, NEW c \in Customer, NEW a \in Artifact,
               NEW v \in {"public", "private"},
               CreateStart(r, c, a, v)
        PROVE  ArtifactInv(b)'
    BY <1>1
       DEF CreateStart, ArtifactInv, KeptOrListed, IsPublic, SavedOnce,
           NotYetSaved, StoreOK, HandlersOK
  <1>2. ASSUME NEW r \in Request, NEW c \in Customer, NEW a \in Artifact,
               ConfirmStart(r, c, a)
        PROVE  ArtifactInv(b)'
    BY <1>2
       DEF ConfirmStart, ArtifactInv, KeptOrListed, IsPublic, HandlerInv,
           OwnerPhase, DeletePhase, ReplyPhase, SavedOnce, NotYetSaved,
           StoreOK, HandlersOK, First, Content
  <1>3. ASSUME NEW r \in Request, NEW c \in Customer, NEW a \in Artifact,
               DeleteStart(r, c, a)
        PROVE  ArtifactInv(b)'
    BY <1>3
       DEF DeleteStart, ArtifactInv, KeptOrListed, IsPublic, HandlerInv,
           OwnerPhase, DeletePhase, ReplyPhase, SavedOnce, NotYetSaved,
           StoreOK, HandlersOK, First, Content
  <1>4. ASSUME NEW r \in Request, NEW c \in Caller, NEW a \in Artifact,
               DownloadStart(r, c, a)
        PROVE  ArtifactInv(b)'
    BY <1>4
       DEF DownloadStart, ArtifactInv, KeptOrListed, IsPublic, HandlerInv,
           OwnerPhase, DeletePhase, ReplyPhase, SavedOnce, NotYetSaved,
           StoreOK, HandlersOK, First, Content
  <1>5. ASSUME NEW r \in Request,
               CreateSave(r)
        PROVE  ArtifactInv(b)'
    BY <1>5
       DEF CreateSave, ArtifactInv, KeptOrListed, IsPublic, HandlerInv,
           OwnerPhase, DeletePhase, ReplyPhase, SavedOnce, NotYetSaved,
           StoreOK, HandlersOK, First, Content
  <1>6. ASSUME NEW r \in Request,
               CreateSavePublic(r)
        PROVE  ArtifactInv(b)'
    BY <1>6
       DEF CreateSavePublic, ArtifactInv, KeptOrListed, IsPublic, HandlerInv,
           OwnerPhase, DeletePhase, ReplyPhase, SavedOnce, NotYetSaved,
           StoreOK, HandlersOK, First, Content
  <1>7. ASSUME NEW r \in Request,
               ConfirmVerify(r)
        PROVE  ArtifactInv(b)'
    BY <1>7
       DEF ConfirmVerify, ArtifactInv, KeptOrListed, IsPublic, HandlerInv,
           OwnerPhase, DeletePhase, ReplyPhase, SavedOnce, NotYetSaved,
           StoreOK, HandlersOK, First, Content
  <1>8. ASSUME NEW r \in Request,
               DownloadPublic(r)
        PROVE  ArtifactInv(b)'
    BY <1>8
       DEF DownloadPublic, ArtifactInv, KeptOrListed, IsPublic, HandlerInv,
           OwnerPhase, DeletePhase, ReplyPhase, SavedOnce, NotYetSaved,
           StoreOK, HandlersOK, First, Content
  <1>9. ASSUME NEW r \in Request,
               DeleteList(r)
        PROVE  ArtifactInv(b)'
    BY <1>9
       DEF DeleteList, ArtifactInv, KeptOrListed, IsPublic, HandlerInv,
           OwnerPhase, DeletePhase, ReplyPhase, SavedOnce, NotYetSaved,
           StoreOK, HandlersOK, First, Content
  <1>10. ASSUME NEW r \in Request,
               DeleteObject(r)
        PROVE  ArtifactInv(b)'
    BY <1>10
       DEF DeleteObject, ArtifactInv, KeptOrListed, IsPublic, HandlerInv,
           OwnerPhase, DeletePhase, ReplyPhase, SavedOnce, NotYetSaved,
           StoreOK, HandlersOK, First, Content
  <1>11. ASSUME NEW r \in Request,
               DeleteMeta(r)
        PROVE  ArtifactInv(b)'
    BY <1>11
       DEF DeleteMeta, ArtifactInv, KeptOrListed, IsPublic, HandlerInv,
           OwnerPhase, DeletePhase, ReplyPhase, SavedOnce, NotYetSaved,
           StoreOK, HandlersOK, First, Content
  <1>12. ASSUME NEW r \in Request,
               DeletePublic(r)
        PROVE  ArtifactInv(b)'
    BY <1>12
       DEF DeletePublic, ArtifactInv, KeptOrListed, IsPublic, HandlerInv,
           OwnerPhase, DeletePhase, ReplyPhase, SavedOnce, NotYetSaved,
           StoreOK, HandlersOK, First, Content
  <1>13. ASSUME NEW r \in Request,
               Reply(r)
        PROVE  ArtifactInv(b)'
    BY <1>13
       DEF Reply, ArtifactInv, KeptOrListed, IsPublic, HandlerInv, OwnerPhase,
           DeletePhase, ReplyPhase, SavedOnce, NotYetSaved, StoreOK,
           HandlersOK, First, Content
  <1>14. ASSUME NEW r \in Request,
               Fail(r)
        PROVE  ArtifactInv(b)'
    BY <1>14
       DEF Fail, ArtifactInv, KeptOrListed, IsPublic, HandlerInv, OwnerPhase,
           DeletePhase, ReplyPhase, SavedOnce, NotYetSaved, StoreOK,
           HandlersOK, First, Content
  <1>15. ASSUME NEW a \in Artifact,
               PutStart(a)
        PROVE  ArtifactInv(b)'
    BY <1>15
       DEF PutStart, ArtifactInv, KeptOrListed, IsPublic, SavedOnce,
           NotYetSaved, StoreOK, HandlersOK
  <1>16. ASSUME NEW a \in Artifact, NEW content \in {"match", "mismatch"},
               PutStore(a, content)
        PROVE  ArtifactInv(b)'
    BY <1>16
       DEF PutStore, ArtifactInv, KeptOrListed, IsPublic, SavedOnce,
           NotYetSaved, StoreOK, HandlersOK
  <1>17. ASSUME NEW a \in Artifact,
               PutAbort(a)
        PROVE  ArtifactInv(b)'
    BY <1>17
       DEF PutAbort, ArtifactInv, KeptOrListed, IsPublic, SavedOnce,
           NotYetSaved, StoreOK, HandlersOK
  <1>18. CASE Tick
    BY <1>18
       DEF Tick, ArtifactInv, KeptOrListed, IsPublic, SavedOnce, NotYetSaved,
           StoreOK, HandlersOK
  <1>19. CASE Crash
    BY <1>19
       DEF Crash, ArtifactInv, KeptOrListed, IsPublic, SavedOnce, NotYetSaved,
           StoreOK, HandlersOK
  <1>20. CASE UNCHANGED vars
    BY <1>20 DEF vars, ArtifactInv, KeptOrListed, IsPublic
  <1> QED
    BY <1>1, <1>2, <1>3, <1>4, <1>5, <1>6, <1>7, <1>8, <1>9, <1>10, <1>11,
       <1>12, <1>13, <1>14, <1>15, <1>16, <1>17, <1>18, <1>19, <1>20
       DEF Next

-----------------------------------------------------------------------------
\* The initial state satisfies the invariant.
LEMMA InitIInv == Init => IInv
  BY ConstantAssumption
     DEF Init, IInv, TypeOK, StoreOK, HandlersOK, SavedOnce, NotYetSaved,
         HandlerInv, ArtifactInv, Content, Handler, Phase, Object, Caller, Idle,
         At, OwnerPhase, DeletePhase, IsPublic

\* IInv holds in every reachable state.
THEOREM Invariance == Spec => []IInv
  <1>1. IInv /\ [Next]_vars => IInv'
    BY TypeStep, SavedStep, HandlerStep, ArtifactStep DEF IInv
  <1> QED
    BY <1>1, InitIInv, PTL DEF Spec

\* Every variable keeps its type, and a running handler works on an artifact.
THEOREM TypeCorrect == Spec => []TypeOK
  <1>1. IInv => TypeOK
    BY DEF IInv
  <1> QED
    BY <1>1, Invariance, PTL

\* A 204 reply means nothing is left, unless a write raced with the delete.
THEOREM CleanDeleteHolds == Spec => []CleanDelete
  <1>1. IInv => CleanDelete
    BY DEF IInv, CleanDelete, ArtifactInv
  <1> QED
    BY <1>1, Invariance, PTL

\* A deleted id never comes back into its owner's catalogue.
THEOREM DeletedStaysDeletedHolds == Spec => []DeletedStaysDeleted
  <1>1. IInv => DeletedStaysDeleted
    BY DEF IInv, DeletedStaysDeleted, ArtifactInv
  <1> QED
    BY <1>1, Invariance, PTL

\* Whatever fails, a confirmed artifact is kept until a delete lists it.
THEOREM ConfirmedRetainedHolds == Spec => []ConfirmedRetained
  <1>1. IInv => ConfirmedRetained
    BY DEF IInv, ConfirmedRetained, ArtifactInv, KeptOrListed
  <1> QED
    BY <1>1, Invariance, PTL

\* A confirmation given after the upload URL is dead is about final bytes.
THEOREM SealedContentFinalHolds == Spec => []SealedContentFinal
  <1>1. IInv => SealedContentFinal
    BY DEF IInv, SealedContentFinal, ArtifactInv
  <1> QED
    BY <1>1, Invariance, PTL

\* The public index holds an acknowledged public artifact while it is listed.
THEOREM PublicWhileListedHolds == Spec => []PublicWhileListed
  <1>1. IInv => PublicWhileListed
    BY DEF IInv, PublicWhileListed, ArtifactInv, IsPublic
  <1> QED
    BY <1>1, Invariance, PTL

\* A public record never comes before the owner's, and outlives it only
\* through a delete.
THEOREM PublicImpliesOwnedHolds == Spec => []PublicImpliesOwned
  <1>1. IInv => PublicImpliesOwned
    BY DEF IInv, TypeOK, StoreOK, PublicImpliesOwned, ArtifactInv, KeptOrListed
  <1> QED
    BY <1>1, Invariance, PTL

-----------------------------------------------------------------------------
(***************************************************************************)
(* Refinement.                                                             *)
(***************************************************************************)
\* Which step of the promise each step of the handlers is, or a stutter.
LEMMA PromiseStep ==
  ASSUME IInv, [Next]_vars
  PROVE  [Promise!Next]_Promise!vars
  <1> DEFINE stage == [a \in Artifact |-> StageOf(a)]
             final == {a \in Artifact : "sealed" \in acks[a]}
  <1> USE DEF IInv, TypeOK, StoreOK, store, history
  <1>1. ASSUME UNCHANGED <<meta, listed, pub, data, acks>>
        PROVE  UNCHANGED Promise!vars
    BY <1>1 DEF Promise!vars, StageOf
  <1>2. ASSUME NEW r \in Request, CreateSave(r)
        PROVE  Promise!Next
    <2> DEFINE a == req[r].art
    <2>1. a \in Artifact /\ NotYetSaved(a)
      BY <1>2 DEF CreateSave, SavedOnce, HandlersOK
    <2>2. stage[a] = "unborn" /\ stage' = [stage EXCEPT ![a] = "kept"]
      BY <1>2, <2>1 DEF CreateSave, StageOf, NotYetSaved
    <2>3. Promise!Publish(a)
      BY <1>2, <2>2 DEF CreateSave, Promise!Publish, Promise!Move
    <2> QED
      BY <2>1, <2>3 DEF Promise!Next
  <1>3. ASSUME NEW r \in Request, CreateSavePublic(r)
        PROVE  Promise!Next
    <2> DEFINE a == req[r].art
    <2>1. a \in Artifact /\ KeptOrListed(a)
      BY <1>3 DEF CreateSavePublic, HandlerInv, HandlersOK
    <2>2. Promise!Show(a)
      BY <1>3, <2>1 DEF CreateSavePublic, Promise!Show, StageOf, KeptOrListed
    <2> QED
      BY <2>1, <2>2 DEF Promise!Next
  <1>4. ASSUME NEW a \in Artifact, NEW content \in {"match", "mismatch"},
               PutStore(a, content)
        PROVE  Promise!Next
    <2>1. KeptOrListed(a) /\ a \notin final
      BY <1>4 DEF PutStore, ArtifactInv
    <2>2. Promise!Write(a, content)
      BY <1>4, <2>1 DEF PutStore, Promise!Write, StageOf, KeptOrListed
    <2> QED
      BY <2>2 DEF Promise!Next
  <1>5. ASSUME NEW r \in Request, DeleteList(r)
        PROVE  [Promise!Next]_Promise!vars
    <2> DEFINE a == req[r].art
    <2>1. a \in Artifact /\ KeptOrListed(a)
      BY <1>5 DEF DeleteList, HandlerInv, HandlersOK, OwnerPhase
    <2>2. CASE a \in listed
      BY <1>1, <1>5, <2>2 DEF DeleteList
    <2>3. CASE a \notin listed
      <3>1. stage[a] = "kept" /\ stage' = [stage EXCEPT ![a] = "leaving"]
        BY <1>5, <2>1, <2>3 DEF DeleteList, StageOf, KeptOrListed
      <3>2. Promise!Condemn(a)
        BY <1>5, <3>1 DEF DeleteList, Promise!Condemn, Promise!Move
      <3> QED
        BY <2>1, <3>2 DEF Promise!Next
    <2> QED
      BY <2>2, <2>3
  \* Losing the record of an artifact whose delete has begun.
  <1>6. ASSUME NEW a \in Artifact, a \in listed, meta' = meta \ {a},
               UNCHANGED <<pub, data, history>>
        PROVE  [Promise!Next]_Promise!vars
    <2>1. CASE a \notin meta
      BY <1>1, <1>6, <2>1
    <2>2. CASE a \in meta
      <3>1. stage[a] = "leaving" /\ stage' = [stage EXCEPT ![a] = "gone"]
        BY <1>6, <2>2 DEF StageOf
      <3>2. Promise!Withdraw(a)
        BY <1>6, <3>1 DEF Promise!Withdraw, Promise!Move
      <3> QED
        BY <3>2 DEF Promise!Next
    <2> QED
      BY <2>1, <2>2
  <1>7. ASSUME NEW r \in Request, DeleteObject(r)
        PROVE  [Promise!Next]_Promise!vars
    <2> DEFINE a == req[r].art
    <2>1. a \in Artifact /\ a \in listed
      BY <1>7 DEF DeleteObject, HandlerInv, HandlersOK, DeletePhase
    <2>2. CASE First(req[r].todo) = "meta"
      BY <1>6, <1>7, <2>1, <2>2 DEF DeleteObject
    <2>3. CASE First(req[r].todo) = "data"
      <3>1. Promise!Erase(a)
        BY <1>7, <2>1, <2>3 DEF DeleteObject, Promise!Erase, StageOf
      <3> QED
        BY <2>1, <3>1 DEF Promise!Next
    <2> QED
      BY <2>2, <2>3 DEF First
  <1>8. ASSUME NEW r \in Request, DeleteMeta(r)
        PROVE  [Promise!Next]_Promise!vars
    <2>1. req[r].art \in Artifact /\ req[r].art \in listed
      BY <1>8 DEF DeleteMeta, HandlerInv, HandlersOK, DeletePhase
    <2> QED
      BY <1>6, <1>8, <2>1 DEF DeleteMeta
  <1>9. ASSUME NEW r \in Request, DeletePublic(r)
        PROVE  Promise!Next
    <2> DEFINE a == req[r].art
    <2>1. a \in Artifact /\ a \in listed /\ a \notin meta
      BY <1>9 DEF DeletePublic, HandlerInv, HandlersOK, DeletePhase
    <2>2. Promise!Hide(a)
      BY <1>9, <2>1 DEF DeletePublic, Promise!Hide, StageOf
    <2> QED
      BY <2>1, <2>2 DEF Promise!Next
  <1>10. ASSUME NEW r \in Request, Reply(r)
         PROVE  [Promise!Next]_Promise!vars
    <2>1. PICK a \in Artifact : a = req[r].art
      BY <1>10 DEF Reply, HandlersOK, ReplyPhase
    <2>2. CASE ~req[r].sealed
      <3>1. final' = final
        BY <1>10, <2>1, <2>2 DEF Reply, ReplyPhase
      <3> QED
        BY <1>10, <3>1 DEF Reply, Promise!vars, StageOf
    <2>3. CASE req[r].sealed
      <3>1. HandlerInv(r)
        OBVIOUS
      <3>2. req[r].phase = "confirmed" /\ final' = final \union {a}
        BY <1>10, <2>1, <2>3, <3>1 DEF Reply, HandlerInv
      <3>3. data[a] = "match" \/ a \in listed
        BY <2>1, <2>3, <3>1, <3>2 DEF HandlerInv
      <3>4. stage' = stage /\ UNCHANGED <<pub, data>>
        BY <1>10 DEF Reply, StageOf
      <3>5. data[a] = "match" \/ stage[a] \in {"leaving", "gone"}
        BY <2>1, <3>3 DEF StageOf
      <3>6. Promise!Seal(a)
        BY <3>2, <3>4, <3>5 DEF Promise!Seal
      <3> QED
        BY <3>6 DEF Promise!Next
    <2> QED
      BY <2>2, <2>3
  <1> QED
    BY <1>1, <1>2, <1>3, <1>4, <1>5, <1>7, <1>8, <1>9, <1>10
       DEF Next, vars, CreateStart, ConfirmStart, DeleteStart, DownloadStart,
           ConfirmVerify, DownloadPublic, Fail, PutStart, PutAbort, Tick, Crash

\* The handlers, with every interleaving and failure, implement the promise.
THEOREM Implementation == Spec => KeepsPromise
  <1>1. Init => Promise!Init
    BY DEF Init, Promise!Init, StageOf
  <1>2. IInv /\ [Next]_vars => [Promise!Next]_Promise!vars
    BY PromiseStep
  <1> QED
    BY <1>1, <1>2, Invariance, PTL DEF Spec, KeepsPromise, Promise!Spec
=============================================================================
