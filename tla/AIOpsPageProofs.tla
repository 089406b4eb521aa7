--------------------------- MODULE AIOpsPageProofs ---------------------------
(***************************************************************************)
(* TLAPS proofs about AIOpsPage: for any sessions, messages and bounds,    *)
(* whatever is lost or overtaken on its way, the page shows the session    *)
(* that is selected, and a message starts one turn under one access.       *)
(***************************************************************************)
EXTENDS AIOpsPage, SequenceTheorems, TLAPS

(* What the page, the wire and the server hold.                              *)
DraftEvents == [session : Sessions, turn : Nat, draft : Nat, running : BOOLEAN]
ReadRow == [session : Sessions, current : BOOLEAN, poll : BOOLEAN, awaited : BOOLEAN,
            answer : Snapshots \cup {None}]
RequestRow == [id : Nat \ {0}, session : Sessions \cup {None}, message : Messages, access : Nat]
SeenRow == [id : Nat \ {0}, message : Messages, session : Sessions, access : Nat]
PostRow == [kind : {"none", "send", "access"},
            phase : {"none", "out", "answered", "failed", "loading"},
            session : Sessions \cup {None}, id : Nat, access : Nat, same : BOOLEAN,
            reply : Sessions \cup {None} \cup Nat]
StreamRow == [open : BOOLEAN, active : BOOLEAN, held : DraftEvents \cup {None},
              events : Seq(Snapshots \cup DraftEvents)]

Requested == wire \cup seen

(* The server's rows are there for good, each under its own name.            *)
ServerShape ==
  /\ data \in [Sessions -> Snapshots \cup {None}]
  /\ \A s \in Sessions : Exists(s) => data[s].session = s
  /\ wire \subseteq RequestRow /\ seen \subseteq SeenRow /\ ids \in Nat
  /\ \A y \in seen : Exists(y.session)

ViewShape ==
  /\ selected \in Sessions \cup {None} /\ (selected # None => Exists(selected))
  /\ shown \in Snapshots \cup {None} /\ stream \in StreamRow /\ reads \subseteq ReadRow

(* Whatever is on its way is of the session it was asked for; what the stream
   of a session holds is of the selected one.                                *)
Placed ==
  /\ ShownIsSelected
  /\ \A r \in reads : Exists(r.session) /\ (r.answer # None => r.answer.session = r.session)
  /\ stream.open =>
       /\ selected # None
       /\ stream.held # None => stream.held.session = selected
       /\ \A i \in 1..Len(stream.events) : stream.events[i].session = selected

(* Requests with one id are one request.                                     *)
Twin(x, r) ==
  x.message = r.message /\ x.access = r.access /\ (r.session # None => x.session = r.session)

Identified ==
  /\ \A x \in Requested : x.id <= ids
  /\ \A x, y \in wire : x.id = y.id => x = y
  /\ \A x \in wire, y \in seen : x.id = y.id => Twin(y, x)
  /\ \A x, y \in seen : x.id = y.id => x = y

(* A message under one access has one id.                                    *)
OneId == \A x, y \in Requested : x.message = y.message /\ x.access = y.access => x.id = y.id

(* What a repetition would send is what was sent under its id.               *)
Remembered ==
  retry # None =>
    /\ retry.session = selected /\ retry.message = draft /\ retry.id <= ids
    /\ \A x \in wire : x.id = retry.id => Twin(x, retry) /\ x.session = retry.session
    /\ \A y \in seen : y.id = retry.id => Twin(y, retry)

(* The composer's message was sent under no later access than is shown, and
   under the one that is shown only with the id that is remembered.          *)
Composed ==
  /\ draft \in Messages \cup {None} /\ retry \in Retries \cup {None}
  /\ Remembered
  /\ \A x \in Requested : x.message = draft =>
       /\ x.access <= AccessShown
       /\ x.access = AccessShown => retry # None /\ x.id = retry.id

(* The request the page waits for.                                           *)
Posted ==
  /\ post \in PostRow
  /\ post.kind # "none" /\ ~post.same => \A x \in Requested : x.message # draft
  /\ post.same /\ post.phase # "loading" => post.session = selected
  /\ post.kind = "send" =>
       /\ \A x \in wire : x.id = post.id => x.session = post.session
       /\ \A y \in seen : y.id = post.id /\ post.session # None => y.session = post.session
       /\ post.phase = "answered" =>
            /\ post.reply \in Sessions /\ Exists(post.reply)
            /\ post.session # None => post.reply = post.session
  /\ post.kind = "access" =>
       /\ post.session \in Sessions /\ Exists(post.session)
       /\ post.same => /\ shown # None
                       /\ \A x \in Requested : x.message = draft => x.access <= post.access
       /\ post.phase = "answered" => post.reply = post.access + 1

PageInv ==
  ServerShape /\ ViewShape /\ Placed /\ Identified /\ OneId /\ Composed /\ Posted

-----------------------------------------------------------------------------
(* What the page makes of a snapshot and of a draft event.                   *)
LEMMA Merged ==
    ASSUME NEW b \in Snapshots \cup {None}, NEW d \in Snapshots
    PROVE  /\ aiMergeSnapshot(b, d) \in Snapshots
           /\ aiMergeSnapshot(b, d).session = d.session
           /\ b # None /\ b.session = d.session => aiMergeSnapshot(b, d).access >= b.access
<1>1. CASE b = None \/ b.session # d.session
  BY <1>1 DEF aiMergeSnapshot
<1>2. CASE b # None /\ b.session = d.session
  <2> DEFINE a == Higher(b.access, d.access)
             k == IF b.turn = d.turn /\ b.running /\ d.running
                  THEN Higher(b.draft, d.draft) ELSE d.draft
             e == [d EXCEPT !.access = a, !.draft = k]
  <2>1. b \in Snapshots
    BY <1>2
  <2>2. a \in Nat \ {0} /\ a >= b.access /\ k \in Nat
    BY <2>1 DEF Snapshots, Higher
  <2>3. aiMergeSnapshot(b, d) = e
    BY <1>2 DEF aiMergeSnapshot
  <2> HIDE DEF a, k
  <2>4. e \in Snapshots /\ e.session = d.session /\ e.access = a
    BY <2>2 DEF Snapshots
  <2> QED  BY <2>2, <2>3, <2>4
<1> QED  BY <1>1, <1>2

LEMMA Applied ==
    ASSUME NEW b \in Snapshots \cup {None}, NEW e \in DraftEvents
    PROVE  /\ b = None => aiApplyDraft(b, e) = None
           /\ b # None => /\ aiApplyDraft(b, e) \in Snapshots
                          /\ aiApplyDraft(b, e).session = b.session
                          /\ aiApplyDraft(b, e).access = b.access
<1>1. CASE aiApplyDraft(b, e) = b
  BY <1>1
<1>2. CASE b # None /\ aiApplyDraft(b, e) = [b EXCEPT !.draft = e.draft]
  BY <1>2 DEF Snapshots, DraftEvents
<1> QED  BY <1>1, <1>2 DEF aiApplyDraft

(* A draft event has no actions; a snapshot has.                             *)
LEMMA EventKinds ==
    /\ \A d \in Snapshots : "acting" \in DOMAIN d
    /\ \A e \in DraftEvents : "acting" \notin DOMAIN e
BY DEF Snapshots, DraftEvents

LEMMA NullIsNone ==
    /\ None \notin Sessions \cup Messages /\ None \notin Snapshots /\ None \notin Retries
BY AIOpsPageAssumption

-----------------------------------------------------------------------------
LEMMA PageInit == Init => PageInv
<1> SUFFICES ASSUME Init PROVE PageInv
  OBVIOUS
<1>1. PICK known \in SUBSET Sessions :
        data = [s \in Sessions |-> IF s \in known THEN New(s) ELSE None]
  BY DEF Init
<1>2. \A s \in Sessions : New(s) \in Snapshots /\ New(s).session = s
  BY DEF New, Snapshots
<1>3. ServerShape
  BY <1>1, <1>2 DEF Init, ServerShape, Exists
<1>4. ViewShape /\ Placed
  <2>1. NoStream \in StreamRow /\ ~NoStream.open
    BY DEF NoStream, StreamRow
  <2> QED  BY <2>1 DEF Init, ViewShape, Placed, ShownIsSelected
<1>5. Identified /\ OneId
  BY DEF Init, Identified, OneId, Requested
<1>6. Composed
  BY DEF Init, Composed, Remembered, Requested
<1>7. Posted
  <2>1. NoPost \in PostRow /\ NoPost.kind = "none" /\ ~NoPost.same
    BY DEF NoPost, PostRow
  <2> QED  BY <2>1 DEF Init, Posted, Requested
<1> QED  BY <1>3, <1>4, <1>5, <1>6, <1>7 DEF PageInv

-----------------------------------------------------------------------------
(* A step that is about what the page sees: the composer, the selection and
   the server stay, the request ends or goes on, and what is shown is kept or
   replaced by something that is not older.                                  *)
Looks ==
  /\ UNCHANGED <<server, selected, draft, retry, ids>> /\ post' \in {post, NoPost}
  /\ shown' \in Snapshots \cup {None}
  /\ shown # None => shown' # None /\ shown'.access >= shown.access

LEMMA LooksKept ==
    ASSUME PageInv, Looks
    PROVE  ServerShape' /\ Identified' /\ OneId' /\ Composed' /\ Posted'
<1> USE DEF PageInv, server
<1>1. UNCHANGED <<data, seen, wire, selected, draft, retry, ids>>
  BY DEF Looks
<1>2. ServerShape' /\ Identified' /\ OneId'
  BY <1>1 DEF ServerShape, Identified, OneId, Requested, Exists, Twin
<1>3. Remembered'
  BY <1>1 DEF Composed, Remembered, Twin
<1>4. /\ shown' = None \/ shown'.access \in Nat
      /\ AccessShown \in Nat /\ AccessShown' \in Nat /\ AccessShown' >= AccessShown
  BY NullIsNone DEF Looks, ViewShape, AccessShown, Snapshots
<1>5. Composed'
  <2>1. \A x \in Requested : x.access \in Nat
    BY DEF ServerShape, Requested, RequestRow, SeenRow
  <2>2. ASSUME NEW x \in Requested', x.message = draft'
        PROVE  /\ x.access <= AccessShown'
               /\ x.access = AccessShown' => retry' # None /\ x.id = retry'.id
    <3>1. x \in Requested /\ x.message = draft
      BY <1>1, <2>2 DEF Requested
    <3>2. x.access <= AccessShown /\ (x.access = AccessShown => retry # None /\ x.id = retry.id)
      BY <3>1 DEF Composed
    <3> QED  BY <1>1, <1>4, <2>1, <3>1, <3>2
  <2> QED  BY <1>1, <1>3, <2>2 DEF Composed
<1>6. Posted'
  <2>1. CASE post' = post
    BY <1>1, <2>1 DEF Posted, Requested, Exists, Looks
  <2>2. CASE post' = NoPost
    <3>1. NoPost \in PostRow /\ NoPost.kind = "none" /\ ~NoPost.same
      BY DEF NoPost, PostRow
    <3> QED  BY <2>2, <3>1 DEF Posted
  <2> QED  BY <2>1, <2>2 DEF Looks
<1> QED  BY <1>2, <1>5, <1>6

(* Rows asked for stay what they are, whether they are current or not.       *)
ReadsPlaced(rs) ==
  rs \subseteq ReadRow
  /\ \A r \in rs : Exists(r.session) /\ (r.answer # None => r.answer.session = r.session)

LEMMA Asked ==
    ASSUME NEW rs, ReadsPlaced(rs)
    PROVE  /\ ReadsPlaced(Outdated(rs))
           /\ \A s \in Sessions : \A p, a \in BOOLEAN :
                Exists(s) => ReadsPlaced(Asking(rs, Read(s, p, a)))
<1>1. ReadsPlaced(Outdated(rs))
  <2> SUFFICES ASSUME NEW r \in rs, NEW q, q = [r EXCEPT !.current = FALSE]
               PROVE  /\ q \in ReadRow /\ Exists(q.session)
                      /\ q.answer # None => q.answer.session = q.session
    BY DEF Outdated, ReadsPlaced
  <2>1. r \in ReadRow /\ Exists(r.session) /\ (r.answer # None => r.answer.session = r.session)
    BY DEF ReadsPlaced
  <2>2. q \in ReadRow /\ q.session = r.session /\ q.answer = r.answer
    BY <2>1 DEF ReadRow
  <2> QED  BY <2>1, <2>2
<1>2. ASSUME NEW s \in Sessions, NEW p \in BOOLEAN, NEW a \in BOOLEAN, Exists(s)
      PROVE  ReadsPlaced(Asking(rs, Read(s, p, a)))
  <2>1. Read(s, p, a) \in ReadRow /\ Read(s, p, a).session = s /\ Read(s, p, a).answer = None
    BY DEF Read, ReadRow
  <2> QED  BY <1>1, <1>2, <2>1 DEF Asking, ReadsPlaced
<1> QED  BY <1>1, <1>2

(* The stream as it is, closed, or with its page's or its server's mark.     *)
StreamPlaced(st, s) ==
  /\ st \in StreamRow
  /\ st.open =>
       /\ s # None
       /\ st.held # None => st.held.session = s
       /\ \A i \in 1..Len(st.events) : st.events[i].session = s

LEMMA PlacedParts ==
    ViewShape /\ Placed <=>
      /\ selected \in Sessions \cup {None} /\ (selected # None => Exists(selected))
      /\ shown \in Snapshots \cup {None} /\ (shown # None => shown.session = selected)
      /\ ReadsPlaced(reads) /\ StreamPlaced(stream, selected)
BY DEF ViewShape, Placed, ShownIsSelected, ReadsPlaced, StreamPlaced

LEMMA Closed ==
    /\ \A s : StreamPlaced(NoStream, s)
    /\ \A s, d : StreamPlaced(stream, selected) /\ (stream.open => s = selected)
         => StreamPlaced(StreamFor(s, d), s)
BY DEF StreamPlaced, StreamFor, NoStream, StreamRow

(* What a tick holds, an event that is sent and one that is taken.           *)
LEMMA StreamGets ==
    ASSUME StreamPlaced(stream, selected), stream.open
    PROVE  /\ \A e \in Snapshots \cup DraftEvents : e.session = selected =>
                /\ StreamPlaced([stream EXCEPT !.events = Append(@, e)], selected)
                /\ StreamPlaced([stream EXCEPT !.held = None, !.events = Append(@, e)], selected)
           /\ \A h \in DraftEvents \cup {None} : (h # None => h.session = selected)
                => StreamPlaced([stream EXCEPT !.held = h], selected)
           /\ StreamPlaced([stream EXCEPT !.held = None], selected)
           /\ stream.events # <<>> =>
                /\ Head(stream.events) \in Snapshots \cup DraftEvents
                /\ Head(stream.events).session = selected
                /\ StreamPlaced([stream EXCEPT !.active = TRUE, !.events = Tail(@)], selected)
<1> DEFINE Events == Snapshots \cup DraftEvents
           es == stream.events
<1>1. /\ stream \in StreamRow /\ es \in Seq(Events) /\ selected # None
      /\ stream.held # None => stream.held.session = selected
      /\ \A i \in 1..Len(es) : es[i].session = selected
  BY DEF StreamPlaced, StreamRow
<1>2. ASSUME NEW e \in Events, e.session = selected
      PROVE  /\ Append(es, e) \in Seq(Events)
             /\ \A i \in 1..Len(Append(es, e)) : Append(es, e)[i].session = selected
  <2> HIDE DEF Events, es
  <2>1. /\ Append(es, e) \in Seq(Events) /\ Len(Append(es, e)) = Len(es) + 1 /\ Len(es) \in Nat
        /\ \A i \in 1..Len(es) : Append(es, e)[i] = es[i]
        /\ Append(es, e)[Len(es) + 1] = e
    BY <1>1, AppendProperties
  <2>2. ASSUME NEW i \in 1..Len(Append(es, e)) PROVE Append(es, e)[i].session = selected
    <3>1. i \in 1..Len(es) \/ i = Len(es) + 1
      BY <2>1
    <3> QED  BY <1>1, <1>2, <2>1, <3>1
  <2> QED  BY <2>1, <2>2
<1>3. ASSUME es # <<>>
      PROVE  /\ Head(es) \in Events /\ Head(es).session = selected
             /\ Tail(es) \in Seq(Events) /\ \A i \in 1..Len(Tail(es)) : Tail(es)[i].session = selected
  <2> HIDE DEF Events, es
  <2>1. /\ Head(es) \in Events /\ Head(es) = es[1] /\ 1 \in 1..Len(es) /\ Tail(es) \in Seq(Events)
        /\ Len(es) \in Nat /\ Len(Tail(es)) = Len(es) - 1
        /\ \A i \in 1..Len(Tail(es)) : Tail(es)[i] = es[i + 1]
    BY <1>1, <1>3, HeadTailProperties
  <2>2. ASSUME NEW i \in 1..Len(Tail(es)) PROVE Tail(es)[i].session = selected
    <3>1. i + 1 \in 1..Len(es)
      BY <2>1
    <3> QED  BY <1>1, <2>1, <3>1
  <2> QED  BY <1>1, <2>1, <2>2
<1>4. ASSUME NEW e \in Events, e.session = selected
      PROVE  /\ StreamPlaced([stream EXCEPT !.events = Append(@, e)], selected)
             /\ StreamPlaced([stream EXCEPT !.held = None, !.events = Append(@, e)], selected)
  <2> DEFINE a == Append(es, e)
  <2>1. a \in Seq(Events) /\ \A i \in 1..Len(a) : a[i].session = selected
    BY <1>2, <1>4
  <2> HIDE DEF a
  <2>2. /\ StreamPlaced([stream EXCEPT !.events = a], selected)
        /\ StreamPlaced([stream EXCEPT !.held = None, !.events = a], selected)
    BY <1>1, <2>1 DEF StreamPlaced, StreamRow
  <2> QED  BY <2>2 DEF a
<1>5. ASSUME NEW h \in DraftEvents \cup {None}, h # None => h.session = selected
      PROVE  StreamPlaced([stream EXCEPT !.held = h], selected)
  BY <1>1, <1>5 DEF StreamPlaced, StreamRow
<1>6. ASSUME es # <<>>
      PROVE  StreamPlaced([stream EXCEPT !.active = TRUE, !.events = Tail(@)], selected)
  <2> DEFINE t == Tail(es)
  <2>1. t \in Seq(Events) /\ \A i \in 1..Len(t) : t[i].session = selected
    BY <1>3, <1>6
  <2> HIDE DEF t
  <2>2. StreamPlaced([stream EXCEPT !.active = TRUE, !.events = t], selected)
    BY <1>1, <2>1 DEF StreamPlaced, StreamRow
  <2> QED  BY <2>2 DEF t
<1> QED  BY <1>3, <1>4, <1>5, <1>6

-----------------------------------------------------------------------------
Viewed == ViewShape' /\ Placed'

(* What a step of the view has to show.                                      *)
LEMMA LooksPlaced ==
    ASSUME PageInv, UNCHANGED <<server, selected>>,
           shown' \in Snapshots \cup {None}, shown' # None => shown'.session = selected,
           ReadsPlaced(reads'), StreamPlaced(stream', selected)
    PROVE  Viewed
<1>1. selected' = selected /\ \A s : Exists(s)' <=> Exists(s)
  BY DEF server, Exists
<1>2. selected \in Sessions \cup {None} /\ (selected # None => Exists(selected))
  BY DEF PageInv, ViewShape
<1> QED
  BY <1>1, <1>2
  DEF Viewed, ViewShape, Placed, ShownIsSelected, ReadsPlaced, StreamPlaced, Exists, server

(* An answer, a failed read, a poll.                                         *)
LEMMA ReadSteps ==
    ASSUME PageInv,
           Poll \/ \E r \in reads : ServerAnswers(r) \/ Arrive(r) \/ ReadFails(r)
    PROVE  PageInv'
<1>0. /\ selected \in Sessions \cup {None} /\ (selected # None => Exists(selected))
      /\ shown \in Snapshots \cup {None} /\ (shown # None => shown.session = selected)
      /\ ReadsPlaced(reads) /\ StreamPlaced(stream, selected)
  BY PlacedParts DEF PageInv
<1>1. CASE Poll
  <2>1. ReadsPlaced(reads')
    BY <1>0, <1>1, Asked DEF Poll
  <2>2. Viewed
    BY <1>0, <1>1, <2>1, LooksPlaced DEF Poll
  <2>3. Looks
    BY <1>0, <1>1 DEF Poll, Looks, composer, Snapshots
  <2> QED  BY <2>2, <2>3, LooksKept DEF PageInv, Viewed
<1>2. ASSUME NEW r \in reads, ServerAnswers(r)
      PROVE  PageInv'
  <2>1. r \in ReadRow /\ Exists(r.session) /\ r.session \in Sessions
    BY <1>0 DEF ReadsPlaced, ReadRow
  <2>2. data[r.session] \in Snapshots /\ data[r.session].session = r.session
    BY <2>1 DEF PageInv, ServerShape, Exists
  <2>3. ReadsPlaced(reads')
    <3> DEFINE a == data[r.session]
               q == [r EXCEPT !.answer = a]
    <3>1. a \in Snapshots /\ a.session = r.session /\ reads' = (reads \ {r}) \cup {q}
      BY <1>2, <2>2 DEF ServerAnswers
    <3> HIDE DEF a
    <3>2. q \in ReadRow /\ q.session = r.session /\ q.answer = a
      BY <2>1, <3>1 DEF ReadRow
    <3> HIDE DEF q
    <3> QED  BY <1>0, <2>1, <3>1, <3>2 DEF ReadsPlaced
  <2>4. Viewed
    BY <1>0, <1>2, <2>3, LooksPlaced DEF ServerAnswers
  <2>5. Looks
    BY <1>0, <1>2 DEF ServerAnswers, Looks, composer, Snapshots
  <2> QED  BY <2>4, <2>5, LooksKept DEF PageInv, Viewed
<1>3. ASSUME NEW r \in reads, ReadFails(r)
      PROVE  PageInv'
  <2>1. ReadsPlaced(reads') /\ post' \in {post, NoPost}
    BY <1>0, <1>3 DEF ReadFails, Returned, ReadsPlaced
  <2>2. Viewed
    BY <1>0, <1>3, <2>1, LooksPlaced DEF ReadFails
  <2>3. Looks
    BY <1>0, <1>3, <2>1 DEF ReadFails, Looks, Snapshots
  <2> QED  BY <2>2, <2>3, LooksKept DEF PageInv, Viewed
<1>4. ASSUME NEW r \in reads, Arrive(r)
      PROVE  PageInv'
  <2>1. /\ ReadsPlaced(reads') /\ post' \in {post, NoPost}
        /\ UNCHANGED <<server, selected, draft, retry, ids>>
    BY <1>0, <1>4 DEF Arrive, Returned, ReadsPlaced
  <2>2. r.answer \in Snapshots /\ r.answer.session = r.session
    BY <1>0, <1>4 DEF Arrive, ReadsPlaced, ReadRow
  <2>3. CASE ~Usable(r)
    <3>1. shown' = shown /\ stream' = stream
      BY <1>4, <2>3 DEF Arrive
    <3>2. Viewed
      BY <1>0, <2>1, <3>1, LooksPlaced
    <3>3. Looks
      BY <1>0, <2>1, <3>1 DEF Looks, Snapshots
    <3> QED  BY <3>2, <3>3, LooksKept DEF PageInv, Viewed
  <2>4. CASE Usable(r)
    <3> DEFINE d == aiMergeSnapshot(shown, r.answer)
    <3>1. shown' = d /\ stream' = StreamFor(selected, d)
      BY <1>4, <2>4 DEF Arrive, Show
    <3>2. d \in Snapshots /\ d.session = selected /\ (shown # None => d.access >= shown.access)
      BY <1>0, <2>2, <2>4, Merged DEF Usable
    <3> HIDE DEF d
    <3>3. StreamPlaced(stream', selected)
      BY <1>0, <3>1, Closed
    <3>4. Viewed
      BY <2>1, <3>1, <3>2, <3>3, LooksPlaced
    <3>5. Looks
      BY <2>1, <3>1, <3>2, NullIsNone DEF Looks
    <3> QED  BY <3>4, <3>5, LooksKept DEF PageInv, Viewed
  <2> QED  BY <2>3, <2>4
<1> QED  BY <1>1, <1>2, <1>3, <1>4

(* The stream: opened, a tick, what it sends, what the page takes, its end.  *)
LEMMA StreamSteps ==
    ASSUME PageInv, Connect \/ Tick \/ EmitSnapshot \/ EmitDraft \/ Event \/ StreamEnds
    PROVE  PageInv'
<1>0. /\ selected \in Sessions \cup {None} /\ (selected # None => Exists(selected))
      /\ shown \in Snapshots \cup {None} /\ (shown # None => shown.session = selected)
      /\ ReadsPlaced(reads) /\ StreamPlaced(stream, selected)
  BY PlacedParts DEF PageInv
<1>1. selected \in Sessions => data[selected] \in Snapshots /\ data[selected].session = selected
  BY <1>0, NullIsNone DEF PageInv, ServerShape, Exists
<1>2. CASE ~Event
  <2>1. UNCHANGED <<server, selected, shown, draft, retry, ids, post, reads>>
    BY <1>2 DEF Connect, Tick, EmitSnapshot, EmitDraft, Event, StreamEnds, composer
  <2>2. StreamPlaced(stream', selected)
    <3>1. CASE Connect
      <4> DEFINE d == data[selected]
      <4>1. selected \in Sessions
        BY <1>0, <3>1, NullIsNone DEF Connect, Snapshots
      <4>2. d \in Snapshots /\ d.session = selected /\ stream' = [NoStream EXCEPT !.open = TRUE, !.events = <<d>>]
        BY <1>1, <3>1, <4>1 DEF Connect
      <4> HIDE DEF d
      <4> DEFINE es == <<d>>
      <4>3. es \in Seq(Snapshots \cup DraftEvents) /\ \A i \in 1..Len(es) : es[i].session = selected
        <5>1. es \in Seq(Snapshots \cup DraftEvents) /\ Len(es) = 1 /\ es[1] = d
          BY <4>2
        <5> HIDE DEF es
        <5>2. \A i \in 1..Len(es) : i = 1
          BY <5>1
        <5> QED  BY <4>2, <5>1, <5>2
      <4>4. stream' = [NoStream EXCEPT !.open = TRUE, !.events = es]
        BY <4>2
      <4> HIDE DEF es
      <4>5. /\ stream'.open /\ stream'.events = es /\ stream'.held = None
            /\ stream' \in StreamRow
        BY <4>3, <4>4 DEF NoStream, StreamRow
      <4> QED  BY <4>1, <4>3, <4>5, NullIsNone DEF StreamPlaced
    <3>2. CASE Tick
      <4>1. stream.open /\ selected \in Sessions
        BY <1>0, <3>2 DEF Tick, StreamPlaced
      <4> DEFINE d == data[selected]
                 h == [session |-> selected, turn |-> d.turn, draft |-> d.draft, running |-> d.running]
      <4>2. h \in DraftEvents /\ h.session = selected
        BY <1>1, <4>1 DEF DraftEvents, Snapshots
      <4>3. stream' = [stream EXCEPT !.held = h]
        BY <3>2 DEF Tick
      <4> HIDE DEF h
      <4> QED  BY <1>0, <4>1, <4>2, <4>3, StreamGets
    <3>3. CASE EmitSnapshot
      <4>1. stream.open /\ selected \in Sessions
        BY <1>0, <3>3 DEF EmitSnapshot, StreamPlaced
      <4> QED  BY <1>0, <1>1, <3>3, <4>1, StreamGets DEF EmitSnapshot, Emit
    <3>4. CASE EmitDraft
      <4>1. stream.open /\ stream.held \in DraftEvents /\ stream.held.session = selected
        BY <1>0, <3>4 DEF EmitDraft, StreamPlaced, StreamRow
      <4> QED  BY <1>0, <3>4, <4>1, StreamGets DEF EmitDraft
    <3>5. CASE StreamEnds
      BY <3>5, Closed DEF StreamEnds
    <3> QED  BY <1>2, <3>1, <3>2, <3>3, <3>4, <3>5
  <2>3. Viewed
    BY <1>0, <2>1, <2>2, LooksPlaced
  <2>4. Looks
    BY <1>0, <2>1 DEF Looks, Snapshots
  <2> QED  BY <2>3, <2>4, LooksKept DEF PageInv, Viewed
<1>3. CASE Event
  <2> DEFINE e == Head(stream.events)
             d == IF "acting" \in DOMAIN e THEN aiMergeSnapshot(shown, e) ELSE aiApplyDraft(shown, e)
  <2>1. /\ stream.open /\ e \in Snapshots \cup DraftEvents /\ e.session = selected
        /\ StreamPlaced([stream EXCEPT !.active = TRUE, !.events = Tail(@)], selected)
    BY <1>0, <1>3, StreamGets DEF Event
  <2>2. /\ UNCHANGED <<server, selected, draft, retry, ids, post>> /\ Received(d)
    BY <1>3 DEF Event, composer
  <2>3. /\ d \in Snapshots \cup {None} /\ (d # None => d.session = selected)
        /\ shown # None => d # None /\ d.access >= shown.access
    <3>1. CASE e \in Snapshots
      <4>1. d = aiMergeSnapshot(shown, e)
        BY <3>1, EventKinds
      <4> HIDE DEF d, e
      <4> QED  BY <1>0, <2>1, <3>1, <4>1, Merged, NullIsNone
    <3>2. CASE e \in DraftEvents
      <4>1. d = aiApplyDraft(shown, e)
        BY <3>2, EventKinds
      <4> HIDE DEF d, e
      <4>2. shown # None => shown.access \in Nat
        BY <1>0 DEF Snapshots
      <4> QED  BY <1>0, <3>2, <4>1, <4>2, Applied, NullIsNone
    <3> QED  BY <2>1, <3>1, <3>2
  <2> HIDE DEF d
  <2>4. shown' = d /\ StreamPlaced(stream', selected) /\ ReadsPlaced(reads')
    BY <1>0, <2>1, <2>2, Closed, Asked DEF Received
  <2>5. Viewed
    BY <2>2, <2>3, <2>4, LooksPlaced
  <2>6. Looks
    BY <2>2, <2>3, <2>4 DEF Looks
  <2> QED  BY <2>5, <2>6, LooksKept DEF PageInv, Viewed
<1> QED  BY <1>2, <1>3

-----------------------------------------------------------------------------
(* Nothing the server has goes away.                                         *)
Grows == \A s \in Sessions : data[s] # None => data'[s] # None

LEMMA ViewPlaced ==
    ASSUME Grows, selected' \in Sessions \cup {None}, selected' # None => Exists(selected'),
           shown' \in Snapshots \cup {None}, shown' # None => shown'.session = selected',
           ReadsPlaced(reads'), StreamPlaced(stream', selected')
    PROVE  Viewed
<1>1. ViewShape'
  BY NullIsNone DEF Grows, ViewShape, Exists, ReadsPlaced, StreamPlaced
<1>2. \A r \in reads' : data'[r.session] # None
  BY DEF Grows, Exists, ReadsPlaced, ReadRow
<1>3. Placed'
  BY <1>2 DEF Placed, ShownIsSelected, Exists, ReadsPlaced, StreamPlaced
<1> QED  BY <1>1, <1>3 DEF Viewed

(* Who leaves a session leaves its message, and the answer to it.            *)
LEMMA LeftKept ==
    ASSUME PageInv, UNCHANGED <<data, seen, wire, ids>>, draft' = None, retry' = None, Left
    PROVE  ServerShape' /\ Identified' /\ OneId' /\ Composed' /\ Posted'
<1> USE DEF PageInv
<1>1. ServerShape' /\ Identified' /\ OneId'
  BY DEF ServerShape, Identified, OneId, Requested, Exists, Twin
<1>2. \A x \in Requested' : x.message # draft'
  BY NullIsNone DEF ServerShape, Requested, RequestRow, SeenRow
<1>3. Composed'
  BY <1>2 DEF Composed, Remembered
<1>4. post' \in PostRow /\ ~post'.same /\ post'.kind = post.kind /\ post'.phase = post.phase
      /\ post'.session = post.session /\ post'.id = post.id /\ post'.reply = post.reply
      /\ post'.access = post.access
  BY DEF Posted, Left, PostRow
<1>5. Posted'
  BY <1>2, <1>4 DEF Posted, Exists
<1> QED  BY <1>1, <1>3, <1>5

(* The operator picks a session or a new one, the page loads.                *)
LEMMA PickSteps ==
    ASSUME PageInv, NewSession \/ Load \/ Loaded \/ \E s \in Sessions : SelectSession(s)
    PROVE  PageInv'
<1>0. /\ selected \in Sessions \cup {None} /\ (selected # None => Exists(selected))
      /\ shown \in Snapshots \cup {None} /\ (shown # None => shown.session = selected)
      /\ ReadsPlaced(reads) /\ StreamPlaced(stream, selected)
  BY PlacedParts DEF PageInv
<1>1. ASSUME NEW s \in Sessions, SelectSession(s)
      PROVE  PageInv'
  <2>1. Exists(s) /\ ReadsPlaced(reads')
    BY <1>0, <1>1, Asked DEF SelectSession
  <2>2. Viewed
    BY <1>1, <2>1, Closed, ViewPlaced DEF SelectSession, server, Grows
  <2> QED  BY <1>1, <2>2, LeftKept DEF SelectSession, server, PageInv, Viewed
<1>2. CASE NewSession
  <2>1. ReadsPlaced(reads')
    BY <1>0, <1>2, Asked DEF NewSession
  <2>2. Viewed
    BY <1>2, <2>1, Closed, ViewPlaced DEF NewSession, server, Grows
  <2> QED  BY <1>2, <2>2, LeftKept DEF NewSession, server, PageInv, Viewed
<1>3. ASSUME UNCHANGED <<server, selected, shown, draft, retry, ids, post, stream>>, ReadsPlaced(reads')
      PROVE  PageInv'
  <2>1. Viewed
    BY <1>0, <1>3, LooksPlaced
  <2>2. Looks
    BY <1>0, <1>3 DEF Looks, Snapshots
  <2> QED  BY <2>1, <2>2, LooksKept DEF PageInv, Viewed
<1>4. CASE Load
  BY <1>0, <1>3, <1>4 DEF Load, composer
<1>5. CASE Loaded
  <2>1. CASE UNCHANGED <<selected, draft, retry, post>>
    <3>1. ReadsPlaced(reads')
      <4>1. ASSUME Resumable PROVE reads' = reads \/ \E s \in Sessions : Exists(s) /\ reads' = Asking(reads, Read(s, FALSE, FALSE))
        BY <1>5, <4>1 DEF Loaded
      <4>2. ASSUME ~Resumable, selected # None
            PROVE  selected \in Sessions /\ Exists(selected) /\ reads' = Asking(reads, Read(selected, FALSE, FALSE))
        BY <1>0, <1>5, <4>2 DEF Loaded
      <4>3. ASSUME ~Resumable, selected = None PROVE reads' = reads
        BY <1>5, <4>3 DEF Loaded
      <4> QED  BY <1>0, <4>1, <4>2, <4>3, Asked
    <3> QED  BY <1>3, <1>5, <2>1, <3>1 DEF Loaded
  <2>2. CASE ~UNCHANGED <<selected, draft, retry, post>>
    <3>1. Resumable /\ UNCHANGED <<server, shown, ids, stream>>
      BY <1>5, <2>2 DEF Loaded
    <3>2. PICK s \in Sessions :
            /\ Exists(s) /\ selected' = s /\ reads' = Asking(reads, Read(s, FALSE, FALSE))
            /\ draft' = None /\ retry' = None /\ Left
      BY <1>5, <2>2, <3>1 DEF Loaded
    <3>3. selected = None /\ shown = None /\ ~stream.open
      BY <1>0, <3>1, NullIsNone DEF Resumable, StreamPlaced, Snapshots
    <3>4. ReadsPlaced(reads')
      BY <1>0, <3>2, Asked
    <3>5. StreamPlaced(stream', selected')
      BY <1>0, <3>1, <3>3 DEF StreamPlaced
    <3>6. Viewed
      BY <3>1, <3>2, <3>3, <3>4, <3>5, ViewPlaced DEF server, Grows
    <3> QED  BY <3>1, <3>2, <3>6, LeftKept DEF server, PageInv, Viewed
  <2> QED  BY <2>1, <2>2
<1> QED  BY <1>1, <1>2, <1>4, <1>5

-----------------------------------------------------------------------------
(* The server's rows change, and keep their names.                           *)
DataKept ==
  /\ data' \in [Sessions -> Snapshots \cup {None}] /\ Grows
  /\ \A s \in Sessions : data'[s] # None => data'[s].session = s

LEMMA RowWritten ==
    ASSUME PageInv, NEW s \in Sessions, NEW d \in Snapshots, d.session = s,
           data' = [data EXCEPT ![s] = d]
    PROVE  DataKept
BY NullIsNone DEF PageInv, ServerShape, DataKept, Grows, Exists

LEMMA DataViewed ==
    ASSUME PageInv, DataKept, UNCHANGED <<selected, shown, reads, stream>>
    PROVE  Viewed
<1>1. /\ selected \in Sessions \cup {None} /\ (selected # None => Exists(selected))
      /\ shown \in Snapshots \cup {None} /\ (shown # None => shown.session = selected)
      /\ ReadsPlaced(reads) /\ StreamPlaced(stream, selected)
  BY PlacedParts DEF PageInv
<1> QED  BY <1>1, ViewPlaced DEF DataKept

(* Whatever of the composer depends on the wire and what has been shown stays. *)
LEMMA ServerSteps ==
    ASSUME PageInv, AccessArrives \/ \E s \in Sessions : ServerGoesOn(s)
    PROVE  PageInv'
<1> USE DEF PageInv
<1>1. UNCHANGED <<seen, wire, selected, shown, draft, retry, ids, reads, stream>>
  BY DEF AccessArrives, ServerGoesOn, composer
<1>2. ASSUME DataKept
      PROVE  /\ ServerShape' /\ Identified' /\ OneId' /\ Composed' /\ Viewed
             /\ \A k \in Sessions : data[k] # None => data'[k] # None
  <2>1. Viewed
    BY <1>1, <1>2, DataViewed
  <2>2. ServerShape'
    BY <1>1, <1>2 DEF ServerShape, DataKept, Grows, Exists, SeenRow
  <2>3. Identified' /\ OneId' /\ Composed'
    BY <1>1 DEF Identified, OneId, Requested, Twin, Composed, Remembered, AccessShown
  <2> QED  BY <1>2, <2>1, <2>2, <2>3 DEF DataKept, Grows
<1>3. ASSUME NEW s \in Sessions, ServerGoesOn(s)
      PROVE  PageInv'
  <2>1. PICK d \in Later(s) : data' = [data EXCEPT ![s] = d]
    BY <1>3 DEF ServerGoesOn
  <2>2. d \in Snapshots /\ d.session = s
    BY AIOpsPageAssumption DEF Later, Snapshots
  <2>3. DataKept
    BY <2>1, <2>2, RowWritten
  <2>4. post' = post
    BY <1>3 DEF ServerGoesOn, composer
  <2>5. Posted'
    <3>1. \A k \in Sessions : data[k] # None => data'[k] # None
      BY <1>2, <2>3
    <3>2. post.kind = "send" /\ post.phase = "answered" =>
            post.reply \in Sessions /\ data'[post.reply] # None
      BY <3>1 DEF Posted, Exists
    <3>3. post.kind = "access" => post.session \in Sessions /\ data'[post.session] # None
      BY <3>1 DEF Posted, Exists
    <3> QED  BY <1>1, <2>4, <3>2, <3>3 DEF Posted, Requested, Exists
  <2> QED  BY <1>2, <2>3, <2>5 DEF Viewed
<1>4. CASE AccessArrives
  <2> DEFINE s == post.session
             a == post.access + 1
             d == [data[s] EXCEPT !.access = @ + 1]
  <2>1. /\ s \in Sessions /\ Exists(s) /\ post \in PostRow /\ post.kind = "access"
        /\ post.phase = "out" /\ post.access \in Nat
    BY <1>4 DEF Posted, AccessArrives, PostRow
  <2>2. data[s] \in Snapshots /\ data[s].session = s
    BY <2>1 DEF ServerShape, Exists
  <2>3. d \in Snapshots /\ d.session = s
    BY <2>2 DEF Snapshots
  <2>4. DataKept
    <3>1. CASE data' = data
      BY <3>1 DEF ServerShape, DataKept, Grows, Exists
    <3>2. CASE data' = [data EXCEPT ![s] = d]
      BY <2>1, <2>3, <3>2, RowWritten
    <3>3. data' = data \/ data' = [data EXCEPT ![s] = d]
      BY <1>4 DEF AccessArrives
    <3> QED  BY <3>1, <3>2, <3>3
  <2>5. \/ post' = [post EXCEPT !.phase = "failed"]
        \/ post' = [post EXCEPT !.phase = "answered", !.reply = a]
    BY <1>4 DEF AccessArrives
  <2>6. /\ post' \in PostRow /\ post'.kind = "access" /\ post'.session = s /\ post'.same = post.same
        /\ post'.access = post.access /\ (post'.phase = "answered" => post'.reply = a)
        /\ post'.phase # "loading"
    <3>1. a \in Nat
      BY <2>1
    <3> HIDE DEF a
    <3> QED  BY <2>1, <2>5, <3>1 DEF PostRow
  <2>7. data'[s] # None
    BY <1>2, <2>1, <2>4 DEF Exists
  <2>8. data'[post'.session] # None
    BY <2>6, <2>7
  <2>9. Posted'
    <3>1. post'.same => shown' # None /\ post'.session = selected'
                        /\ \A x \in Requested' : x.message = draft' => x.access <= post'.access
      BY <1>1, <2>1, <2>6 DEF Posted, Requested
    <3>2. ~post'.same => \A x \in Requested' : x.message # draft'
      BY <1>1, <2>1, <2>6 DEF Posted, Requested
    <3>3. post'.kind # "send" /\ post'.session \in Sessions
      BY <2>1, <2>6
    <3>4. post'.phase = "answered" => post'.reply = post'.access + 1
      BY <2>6
    <3> HIDE DEF s, a
    <3> QED  BY <2>6, <2>8, <3>1, <3>2, <3>3, <3>4 DEF Posted, Exists
  <2> QED  BY <1>2, <2>4, <2>9 DEF Viewed
<1> QED  BY <1>3, <1>4

-----------------------------------------------------------------------------
(* A request arrives: the turn it starts is of its message and access, and of
   the session it names.                                                     *)
SeenOf(x, s) == [id |-> x.id, message |-> x.message, session |-> s, access |-> x.access]

Turned(x, s) ==
  /\ seen' = seen \cup {SeenOf(x, s)} /\ \A y \in seen : y.id # x.id
  /\ x.session # None => s = x.session

SeenKept(x) ==
  /\ seen' \subseteq SeenRow /\ \A y \in seen' : data'[y.session] # None
  /\ \A y \in seen' : \/ y \in seen
                      \/ /\ y.id = x.id /\ y.message = x.message /\ y.access = x.access
                         /\ x.session # None => y.session = x.session
                         /\ \A z \in seen : z.id # x.id
  /\ \A y, z \in seen' : y.id = z.id => y = z

LEMMA Taken ==
    ASSUME PageInv, NEW x \in wire, wire' = wire \ {x}, DataKept,
           UNCHANGED <<selected, shown, draft, retry, ids>>,
           seen' = seen \/ \E s \in Sessions : Turned(x, s) /\ data'[s] # None
    PROVE  /\ ServerShape' /\ Identified' /\ OneId' /\ Composed'
           /\ \A z \in Requested' : \E w \in Requested :
                w.id = z.id /\ w.message = z.message /\ w.access = z.access
           /\ \A y \in seen' : y \in seen \/ (/\ y.id = x.id
                                              /\ x.session # None => y.session = x.session)
<1> USE DEF PageInv, SeenKept
<1>1. x \in RequestRow
  BY DEF ServerShape
<1>2. SeenKept(x)
  <2>1. CASE seen' = seen
    BY <2>1 DEF ServerShape, Exists, DataKept, Grows, Identified, SeenRow
  <2>2. ASSUME NEW s \in Sessions, Turned(x, s), data'[s] # None
        PROVE  SeenKept(x)
    <3>1. /\ SeenOf(x, s) \in SeenRow /\ SeenOf(x, s).id = x.id /\ SeenOf(x, s).message = x.message
          /\ SeenOf(x, s).access = x.access /\ SeenOf(x, s).session = s
      BY <1>1 DEF SeenOf, SeenRow, RequestRow
    <3>2. seen' = seen \cup {SeenOf(x, s)} /\ (\A y \in seen : y.id # x.id)
          /\ (x.session # None => s = x.session)
      BY <2>2 DEF Turned
    <3>3. seen \subseteq SeenRow /\ \A y \in seen : data'[y.session] # None
      BY DEF ServerShape, Exists, DataKept, Grows, SeenRow
    <3>4. \A y, z \in seen : y.id = z.id => y = z
      BY DEF Identified
    <3> QED  BY <2>2, <3>1, <3>2, <3>3, <3>4
  <2> QED  BY <2>1, <2>2
<1>3. ServerShape'
  BY <1>2 DEF ServerShape, DataKept, Exists
<1>4. \A z \in Requested' : \E w \in Requested :
         w.id = z.id /\ w.message = z.message /\ w.access = z.access
  BY <1>2 DEF Requested
<1>5. Identified'
  <2>1. \A z \in wire' : z \in wire /\ z.id # x.id
    BY DEF Identified
  <2>2. ASSUME NEW z \in wire', NEW y \in seen', z.id = y.id PROVE Twin(y, z)
    BY <1>2, <2>1, <2>2 DEF Identified
  <2>3. \A z \in Requested' : z.id <= ids'
    BY <1>4 DEF Identified
  <2> QED  BY <1>2, <2>1, <2>2, <2>3 DEF Identified, Twin
<1>6. OneId'
  BY <1>4 DEF OneId
<1>7. Remembered'
  <2> SUFFICES ASSUME retry # None
               PROVE  /\ retry.session = selected /\ retry.message = draft /\ retry.id <= ids
                      /\ \A z \in wire' : z.id = retry.id => Twin(z, retry) /\ z.session = retry.session
                      /\ \A y \in seen' : y.id = retry.id => Twin(y, retry)
    BY DEF Remembered, Twin
  <2>1. Remembered
    BY DEF Composed
  <2>2. ASSUME NEW y \in seen', y.id = retry.id PROVE Twin(y, retry)
    <3>1. CASE y \in seen
      BY <2>1, <2>2, <3>1 DEF Remembered
    <3>2. CASE y \notin seen
      <4>1. /\ y.id = x.id /\ y.message = x.message /\ y.access = x.access
            /\ x.session # None => y.session = x.session
        BY <1>2, <3>2
      <4>2. Twin(x, retry) /\ x.session = retry.session
        BY <2>1, <2>2, <4>1 DEF Remembered
      <4> QED  BY <4>1, <4>2 DEF Twin
    <3> QED  BY <3>1, <3>2
  <2> QED  BY <2>1, <2>2 DEF Remembered
<1>8. Composed'
  <2>1. AccessShown' = AccessShown
    BY DEF AccessShown
  <2>2. ASSUME NEW z \in Requested', z.message = draft
        PROVE  z.access <= AccessShown /\ (z.access = AccessShown => retry # None /\ z.id = retry.id)
    BY <1>4, <2>2 DEF Composed
  <2> QED  BY <1>7, <2>1, <2>2 DEF Composed
<1> QED  BY <1>2, <1>3, <1>4, <1>5, <1>6, <1>8

LEMMA ArrivalSteps ==
    ASSUME PageInv, NEW x \in wire, SendArrives(x)
    PROVE  PageInv'
<1> USE DEF PageInv
<1>1. wire' = wire \ {x} /\ UNCHANGED <<selected, shown, draft, retry, ids, reads, stream>>
  BY DEF SendArrives
<1>2. x \in RequestRow /\ post \in PostRow
  BY DEF ServerShape, Posted
<1>3. ASSUME DataKept, seen' = seen \/ \E s \in Sessions : Turned(x, s) /\ data'[s] # None,
             \/ Refuse(x)
             \/ \E s \in Sessions : /\ Answer(x, s) /\ data'[s] # None
                                    /\ \E y \in seen' : y.id = x.id /\ y.session = s
      PROVE  PageInv'
  <2>1. /\ ServerShape' /\ Identified' /\ OneId' /\ Composed'
        /\ \A z \in Requested' : \E w \in Requested :
             w.id = z.id /\ w.message = z.message /\ w.access = z.access
        /\ \A y \in seen' : y \in seen \/ (y.id = x.id /\ (x.session # None => y.session = x.session))
    BY <1>1, <1>3, Taken
  <2>2. Viewed
    BY <1>1, <1>3, DataViewed
  <2>3. /\ post' \in PostRow /\ post'.kind = post.kind /\ post'.session = post.session
        /\ post'.id = post.id /\ post'.access = post.access /\ post'.same = post.same
        /\ \/ post'.phase = post.phase /\ post'.reply = post.reply
           \/ post'.phase = "failed" /\ Waiting(x)
           \/ /\ post'.phase = "answered" /\ Waiting(x) /\ post'.reply \in Sessions
              /\ data'[post'.reply] # None
              /\ \E y \in seen' : y.id = x.id /\ y.session = post'.reply
    BY <1>2, <1>3 DEF Refuse, Answer, PostRow
  <2>4. ASSUME post.kind = "send"
        PROVE  /\ \A z \in wire' : z.id = post.id => z.session = post.session
               /\ \A y \in seen' : y.id = post.id /\ post.session # None => y.session = post.session
    BY <1>1, <2>1, <2>4 DEF Posted
  <2>5. ASSUME post'.kind = "send", post'.phase = "answered"
        PROVE  /\ post'.reply \in Sessions /\ data'[post'.reply] # None
               /\ post'.session # None => post'.reply = post'.session
    <3>1. CASE post'.phase = post.phase /\ post'.reply = post.reply
      BY <1>3, <2>3, <2>5, <3>1 DEF Posted, DataKept, Grows, Exists
    <3>2. CASE /\ Waiting(x) /\ post'.reply \in Sessions /\ data'[post'.reply] # None
               /\ \E y \in seen' : y.id = x.id /\ y.session = post'.reply
      BY <2>3, <2>4, <2>5, <3>2 DEF Waiting
    <3> QED  BY <2>3, <2>5, <3>1, <3>2
  <2>6. /\ post'.kind # "none" /\ ~post'.same => \A z \in Requested' : z.message # draft'
        /\ post'.same /\ post'.phase # "loading" => post'.session = selected'
    BY <1>1, <2>1, <2>3 DEF Posted, Waiting
  <2>7. ASSUME post'.kind = "access"
        PROVE  /\ post'.session \in Sessions /\ data'[post'.session] # None
               /\ post'.same => /\ shown' # None
                                /\ \A z \in Requested' : z.message = draft' => z.access <= post'.access
               /\ post'.phase = "answered" => post'.reply = post'.access + 1
    <3>1. post.kind = "access" /\ post'.phase = post.phase /\ post'.reply = post.reply
      BY <2>3, <2>7 DEF Waiting
    <3>2. post.session \in Sessions /\ data'[post.session] # None
      BY <1>3, <3>1 DEF Posted, DataKept, Grows, Exists
    <3>3. post.same => /\ shown' # None
                       /\ \A z \in Requested' : z.message = draft' => z.access <= post.access
      BY <1>1, <2>1, <3>1 DEF Posted
    <3> QED  BY <2>3, <3>1, <3>2, <3>3 DEF Posted
  <2>8. Posted'
    BY <2>3, <2>4, <2>5, <2>6, <2>7 DEF Posted, Exists
  <2> QED  BY <2>1, <2>2, <2>8 DEF Viewed
<1>4. DataKept \/ data' # data
  BY DEF ServerShape, DataKept, Grows, Exists
<1>5. ASSUME NEW y \in seen, y.id = x.id, Answer(x, y.session), UNCHANGED <<data, seen>>
      PROVE  PageInv'
  <2>1. y.session \in Sessions /\ data'[y.session] # None
    BY <1>5 DEF ServerShape, SeenRow, Exists
  <2> QED  BY <1>3, <1>4, <1>5, <2>1
<1>6. ASSUME NEW s \in Sessions, Accepts(x, s), Started(x, s), Answer(x, s), \A y \in seen : y.id # x.id
      PROVE  PageInv'
  <2> DEFINE b == IF Exists(s) THEN data[s] ELSE New(s)
             t == b.turn + 1
             d == [b EXCEPT !.turn = t, !.running = TRUE, !.draft = 0]
  <2>1. b \in Snapshots /\ b.session = s
    BY DEF ServerShape, Exists, New, Snapshots
  <2>2. d \in Snapshots /\ d.session = s
    <3>1. t \in Nat
      BY <2>1 DEF Snapshots
    <3> HIDE DEF b, t
    <3> QED  BY <2>1, <3>1 DEF Snapshots
  <2>3. data' = [data EXCEPT ![s] = d]
    BY <1>6 DEF Started
  <2> HIDE DEF d
  <2>4. DataKept
    BY <2>2, <2>3, RowWritten
  <2>5. data'[s] # None
    BY <2>2, <2>3, NullIsNone DEF ServerShape
  <2>6. Turned(x, s) /\ SeenOf(x, s) \in seen' /\ SeenOf(x, s).id = x.id /\ SeenOf(x, s).session = s
    BY <1>6 DEF Turned, Started, SeenOf, Accepts
  <2> QED  BY <1>3, <1>6, <2>4, <2>5, <2>6
<1>7. ASSUME Refuse(x), UNCHANGED <<data, seen>>
      PROVE  PageInv'
  BY <1>3, <1>4, <1>7
<1> QED  BY <1>5, <1>6, <1>7 DEF SendArrives

-----------------------------------------------------------------------------
(* Steps that leave the server and what is on its way to it alone.           *)
LEMMA QuietKept ==
    ASSUME PageInv, UNCHANGED <<data, seen, wire, ids>>
    PROVE  ServerShape' /\ Identified' /\ OneId'
BY DEF PageInv, ServerShape, Identified, OneId, Requested, Exists, Twin

(* A message is typed, a request is lost or given up, one for access is made. *)
LEMMA EditSteps ==
    ASSUME PageInv, PostLost \/ PostFailed \/ ChangeAccess \/ \E m \in Messages : Type(m)
    PROVE  PageInv'
<1>0. /\ selected \in Sessions \cup {None} /\ (selected # None => Exists(selected))
      /\ shown \in Snapshots \cup {None} /\ (shown # None => shown.session = selected)
      /\ ReadsPlaced(reads) /\ StreamPlaced(stream, selected)
  BY PlacedParts DEF PageInv
<1>1. ServerShape /\ Composed /\ Posted
  BY DEF PageInv
<1>2. UNCHANGED <<server, selected, shown, retry, ids, reads, stream>>
  BY DEF PostLost, PostFailed, ChangeAccess, Type
<1>3. Viewed /\ ServerShape' /\ Identified' /\ OneId'
  BY <1>0, <1>2, LooksPlaced, QuietKept DEF server
<1>4. UNCHANGED <<data, seen, wire>> /\ AccessShown' = AccessShown
  BY <1>2 DEF server, AccessShown
<1>5. ASSUME draft' = draft PROVE Composed'
  BY <1>1, <1>2, <1>4, <1>5 DEF Composed, Remembered, Requested, Twin
<1>6. CASE PostLost
  <2>1. /\ draft' = draft /\ post' \in PostRow /\ post'.phase = "failed" /\ post.phase # "loading"
        /\ post'.kind = post.kind /\ post'.session = post.session /\ post'.id = post.id
        /\ post'.access = post.access /\ post'.same = post.same
    BY <1>1, <1>6 DEF PostLost, Posted, PostRow
  <2>2. Posted'
    BY <1>1, <1>2, <1>4, <2>1 DEF Posted, Requested, Exists
  <2> QED  BY <1>3, <1>5, <2>1, <2>2 DEF PageInv, Viewed
<1>7. CASE PostFailed
  <2>1. draft' = draft /\ post' = NoPost
    BY <1>7 DEF PostFailed
  <2>2. NoPost \in PostRow /\ NoPost.kind = "none" /\ ~NoPost.same
    BY DEF NoPost, PostRow
  <2>3. Posted'
    BY <2>1, <2>2 DEF Posted
  <2> QED  BY <1>3, <1>5, <2>1, <2>3 DEF PageInv, Viewed
<1>8. CASE ChangeAccess
  <2> DEFINE a == shown.access
             s == selected
  <2>1. /\ draft' = draft /\ s \in Sessions /\ shown \in Snapshots /\ shown # None
        /\ a \in Nat /\ AccessShown = a
        /\ post' = [NoPost EXCEPT !.kind = "access", !.phase = "out", !.session = s,
                                  !.access = a, !.same = TRUE]
    BY <1>0, <1>8 DEF ChangeAccess, Snapshots, AccessShown
  <2>2. \A x \in Requested' : x.message = draft' => x.access <= a
    BY <1>1, <1>4, <2>1 DEF Composed, Requested
  <2>3. Exists(s)
    BY <1>0, <2>1, NullIsNone
  <2> HIDE DEF a
  <2>4. /\ post' \in PostRow /\ post'.kind = "access" /\ post'.phase = "out" /\ post'.session = s
        /\ post'.access = a /\ post'.same
    BY <2>1 DEF NoPost, PostRow
  <2>5. Posted'
    BY <1>2, <1>4, <2>1, <2>2, <2>3, <2>4 DEF Posted, Exists
  <2> QED  BY <1>3, <1>5, <2>1, <2>5 DEF PageInv, Viewed
<1>9. ASSUME NEW m \in Messages, Type(m)
      PROVE  PageInv'
  <2>1. /\ draft = None /\ draft' = m /\ post' = post
        /\ \A x \in seen \cup wire : x.message # m
    BY <1>9 DEF Type
  <2>2. retry = None
    BY <1>1, <2>1, NullIsNone DEF Composed, Remembered, Retries
  <2>3. \A x \in Requested' : x.message # draft'
    BY <1>4, <2>1 DEF Requested
  <2>4. Composed'
    BY <1>2, <2>1, <2>2, <2>3 DEF Composed, Remembered
  <2>5. Posted'
    BY <1>1, <1>2, <1>4, <2>1, <2>3 DEF Posted, Requested, Exists
  <2> QED  BY <1>3, <2>4, <2>5 DEF PageInv, Viewed
<1> QED  BY <1>6, <1>7, <1>8, <1>9

(* The message is sent, with the id that is remembered or with a new one.    *)
LEMMA SendSteps ==
    ASSUME PageInv, Send
    PROVE  PageInv'
<1>0. /\ selected \in Sessions \cup {None} /\ (selected # None => Exists(selected))
      /\ shown \in Snapshots \cup {None} /\ (shown # None => shown.session = selected)
      /\ ReadsPlaced(reads) /\ StreamPlaced(stream, selected)
  BY PlacedParts DEF PageInv
<1>1. /\ ServerShape /\ Identified /\ OneId /\ Composed /\ Posted
  BY DEF PageInv
<1>2. /\ draft \in Messages /\ UNCHANGED <<data, seen, selected, shown, draft, reads, stream>>
  BY <1>1 DEF Send, Composed
<1>3. AccessShown \in Nat /\ AccessShown' = AccessShown /\ ids \in Nat
  BY <1>0, <1>1, <1>2 DEF AccessShown, Snapshots, ServerShape
<1> DEFINE a == AccessShown
           x == [id |-> retry'.id, session |-> selected, message |-> draft, access |-> a]
<1>4. /\ retry' \in Retries /\ retry'.session = selected /\ retry'.message = draft
      /\ retry'.access = a
  <2>1. CASE Retried
    <3>1. retry' = retry /\ retry \in Retries
      BY <1>1, <2>1 DEF Send, Composed, Retried
    <3> QED  BY <2>1, <3>1 DEF Retried
  <2>2. CASE ~Retried
    <3>1. retry' = [session |-> selected, message |-> draft, access |-> a, id |-> ids + 1]
      BY <2>2 DEF Send
    <3> HIDE DEF a
    <3>2. a \in Nat
      BY <1>3 DEF a
    <3> QED  BY <1>0, <1>2, <1>3, <3>1, <3>2 DEF Retries
  <2> QED  BY <2>1, <2>2
<1>5. retry'.id \in Nat \ {0} /\ retry' # None
  BY <1>4, NullIsNone DEF Retries
<1>6. /\ Retried => retry' = retry /\ retry # None /\ retry'.id <= ids
      /\ ~Retried => retry'.id = ids + 1
  BY <1>1 DEF Send, Retried, Composed, Remembered
<1>7. ids' \in Nat /\ ids' >= ids /\ ids' >= retry'.id
  BY <1>3, <1>5 DEF Send, Higher
<1>8. wire' = wire \cup {x} /\ x \in RequestRow
  <2>1. wire' = wire \cup {x}
    BY DEF Send, Request
  <2>2. x \in RequestRow
    BY <1>0, <1>2, <1>3, <1>5 DEF RequestRow
  <2> QED  BY <2>1, <2>2
<1>9. /\ x.id = retry'.id /\ x.session = selected /\ x.message = draft /\ x.access = a
  OBVIOUS
<1>10. /\ \A y \in wire : y.id = retry'.id => y = x
       /\ \A y \in seen : y.id = retry'.id => Twin(y, x)
  <2>1. \A y \in Requested : y.id <= ids /\ y.id \in Nat
    BY <1>1 DEF Identified, Requested, ServerShape, RequestRow, SeenRow
  <2>2. CASE ~Retried
    BY <1>3, <1>6, <2>1, <2>2 DEF Requested
  <2>3. CASE Retried
    <3>1. /\ \A y \in wire : y.id = retry'.id => Twin(y, retry') /\ y.session = retry'.session
          /\ \A y \in seen : y.id = retry'.id => Twin(y, retry')
      BY <1>1, <1>6, <2>3 DEF Composed, Remembered
    <3>2. ASSUME NEW y \in wire, y.id = retry'.id PROVE y = x
      <4>1. y \in RequestRow
        BY <1>1 DEF ServerShape
      <4>2. y.session = selected /\ y.message = draft /\ y.access = a
        BY <1>4, <3>1, <3>2 DEF Twin
      <4> QED  BY <3>2, <4>1, <4>2 DEF RequestRow
    <3>3. ASSUME NEW y \in seen, y.id = retry'.id PROVE Twin(y, x)
      BY <1>4, <1>9, <3>1, <3>3 DEF Twin
    <3> QED  BY <3>2, <3>3
  <2> QED  BY <2>2, <2>3
<1>11. \A y \in Requested : y.message = draft /\ y.access = a => y.id = retry'.id
  <2> SUFFICES ASSUME NEW y \in Requested, y.message = draft, y.access = a
               PROVE  y.id = retry'.id
    OBVIOUS
  <2>1. retry # None /\ y.id = retry.id
    BY <1>1 DEF Composed
  <2>2. Twin(y, retry) /\ retry.session = selected /\ retry.message = draft
    BY <1>1, <2>1 DEF Composed, Remembered, Requested
  <2>3. Retried
    BY <2>1, <2>2 DEF Retried, Twin
  <2> QED  BY <1>6, <2>1, <2>3
<1> HIDE DEF x, a
<1>12. ServerShape'
  BY <1>1, <1>2, <1>7, <1>8 DEF ServerShape, Exists
<1>13. Requested' = Requested \cup {x}
  BY <1>2, <1>8 DEF Requested
<1>14. Identified'
  <2>1. \A y \in Requested' : y.id <= ids'
    <3>1. \A y \in Requested : y.id <= ids /\ y.id \in Nat
      BY <1>1 DEF Identified, Requested, ServerShape, RequestRow, SeenRow
    <3> QED  BY <1>3, <1>7, <1>9, <1>13, <3>1
  <2>2. \A y, z \in wire' : y.id = z.id => y = z
    BY <1>1, <1>8, <1>9, <1>10 DEF Identified
  <2>3. \A y \in wire', z \in seen' : y.id = z.id => Twin(z, y)
    BY <1>1, <1>2, <1>8, <1>9, <1>10 DEF Identified
  <2> QED  BY <1>1, <1>2, <2>1, <2>2, <2>3 DEF Identified, Twin
<1>15. OneId'
  BY <1>1, <1>9, <1>11, <1>13 DEF OneId
<1>16. Composed'
  <2>1. Remembered'
    <3>1. \A y \in wire' : y.id = retry'.id => Twin(y, retry') /\ y.session = retry'.session
      BY <1>4, <1>8, <1>9, <1>10 DEF Twin
    <3>2. \A y \in seen' : y.id = retry'.id => Twin(y, retry')
      BY <1>2, <1>4, <1>9, <1>10 DEF Twin
    <3> QED  BY <1>2, <1>4, <1>7, <3>1, <3>2 DEF Remembered, Twin
  <2>2. \A y \in Requested' : y.message = draft' =>
          y.access <= a /\ (y.access = a => retry' # None /\ y.id = retry'.id)
    BY <1>1, <1>2, <1>3, <1>5, <1>9, <1>11, <1>13 DEF Composed, a
  <2> QED  BY <1>2, <1>3, <1>4, <2>1, <2>2 DEF Composed, a
<1>17. Posted'
  <2> DEFINE i == retry'.id
  <2>1. post' = [NoPost EXCEPT !.kind = "send", !.phase = "out", !.session = selected,
                               !.id = i, !.same = TRUE]
    BY DEF Send
  <2>2. i \in Nat
    BY <1>5
  <2> HIDE DEF i
  <2>3. /\ post' \in PostRow /\ post'.kind = "send" /\ post'.phase = "out" /\ post'.same
        /\ post'.session = selected /\ post'.id = i
    BY <1>0, <2>1, <2>2 DEF NoPost, PostRow
  <2>4. /\ \A y \in wire' : y.id = i => y.session = selected
        /\ \A y \in seen' : y.id = i /\ selected # None => y.session = selected
    BY <1>2, <1>8, <1>9, <1>10 DEF Twin, i
  <2> QED  BY <1>2, <2>3, <2>4 DEF Posted
<1>18. Viewed
  BY <1>0, <1>2, ViewPlaced DEF Grows
<1> QED  BY <1>12, <1>14, <1>15, <1>16, <1>17, <1>18 DEF PageInv, Viewed

(* The answer to a message: its session is selected and read.                *)
LEMMA AnswerSteps ==
    ASSUME PageInv, Sent
    PROVE  PageInv'
<1>0. /\ selected \in Sessions \cup {None} /\ (selected # None => Exists(selected))
      /\ shown \in Snapshots \cup {None} /\ (shown # None => shown.session = selected)
      /\ ReadsPlaced(reads) /\ StreamPlaced(stream, selected)
  BY PlacedParts DEF PageInv
<1>1. ServerShape /\ Composed /\ Posted
  BY DEF PageInv
<1>2. /\ UNCHANGED <<data, seen, wire, ids, shown, stream>> /\ retry' = None
      /\ post.kind = "send" /\ post.phase = "answered"
  BY DEF Sent, server
<1>3. /\ ServerShape' /\ Identified' /\ OneId'
  BY <1>2, QuietKept
<1>4. \A x \in Requested : x.message \in Messages
  BY <1>1 DEF ServerShape, Requested, RequestRow, SeenRow
<1>5. Requested' = Requested
  BY <1>2 DEF Requested
<1>6. CASE post.same /\ selected = post.session
  <2> DEFINE p == post.reply
  <2>1. p \in Sessions /\ Exists(p) /\ (selected # None => p = selected)
    BY <1>1, <1>2, <1>6 DEF Posted
  <2>2. /\ selected' = p /\ draft' = None /\ reads' = Asking(reads, Read(p, FALSE, TRUE))
        /\ post' = [post EXCEPT !.phase = "loading"]
    BY <1>6 DEF Sent
  <2> HIDE DEF p
  <2>3. shown # None => selected # None
    BY <1>0, NullIsNone DEF Snapshots
  <2>4. StreamPlaced(stream, p)
    BY <1>0, <2>1 DEF StreamPlaced
  <2>5. Viewed
    <3>1. ReadsPlaced(reads')
      BY <1>0, <2>1, <2>2, Asked
    <3> QED  BY <1>0, <1>2, <2>1, <2>2, <2>3, <2>4, <3>1, ViewPlaced DEF Grows
  <2>6. \A x \in Requested' : x.message # draft'
    BY <1>4, <1>5, <2>2, NullIsNone
  <2>7. Composed'
    BY <1>2, <2>2, <2>6 DEF Composed, Remembered
  <2>8. /\ post' \in PostRow /\ post'.kind = "send" /\ post'.phase = "loading"
        /\ post'.session = post.session /\ post'.id = post.id
    BY <1>1, <1>2, <2>2 DEF Posted, PostRow
  <2>9. Posted'
    BY <1>1, <1>2, <2>6, <2>8 DEF Posted
  <2> QED  BY <1>3, <2>5, <2>7, <2>9 DEF PageInv, Viewed
<1>7. CASE ~(post.same /\ selected = post.session)
  <2>1. post' = NoPost /\ UNCHANGED <<selected, draft, reads>>
    BY <1>7 DEF Sent
  <2>2. \A x \in Requested' : x.message # draft'
    BY <1>1, <1>2, <1>5, <1>7, <2>1 DEF Posted
  <2>3. Composed'
    BY <1>1, <1>2, <2>1, <2>2 DEF Composed, Remembered
  <2>4. Posted'
    <3>1. NoPost \in PostRow /\ NoPost.kind = "none" /\ ~NoPost.same
      BY DEF NoPost, PostRow
    <3> QED  BY <2>1, <3>1 DEF Posted
  <2>5. Viewed
    BY <1>0, <1>2, <2>1, ViewPlaced DEF Grows
  <2> QED  BY <1>3, <2>3, <2>4, <2>5 DEF PageInv, Viewed
<1> QED  BY <1>6, <1>7

(* The answer to a change of access: what the composer's message was sent
   under before is outdated.                                                 *)
LEMMA AccessSteps ==
    ASSUME PageInv, AccessChanged
    PROVE  PageInv'
<1>0. /\ selected \in Sessions \cup {None} /\ (selected # None => Exists(selected))
      /\ shown \in Snapshots \cup {None} /\ (shown # None => shown.session = selected)
      /\ ReadsPlaced(reads) /\ StreamPlaced(stream, selected)
  BY PlacedParts DEF PageInv
<1>1. ServerShape /\ Composed /\ Posted
  BY DEF PageInv
<1>2. /\ UNCHANGED <<data, seen, wire, ids, selected, draft, stream>>
      /\ post.kind = "access" /\ post.phase = "answered"
  BY DEF AccessChanged, server
<1>3. /\ ServerShape' /\ Identified' /\ OneId'
  BY <1>2, QuietKept
<1>4. Requested' = Requested
  BY <1>2 DEF Requested
<1>5. CASE post.same /\ selected = post.session
  <2> DEFINE h == Higher(shown.access, post.reply)
  <2>1. /\ shown # None /\ shown \in Snapshots /\ shown.access \in Nat \ {0} /\ post.access \in Nat
        /\ post.reply = post.access + 1 /\ selected \in Sessions /\ Exists(selected)
        /\ \A x \in Requested : x.message = draft => x.access <= post.access
    BY <1>0, <1>1, <1>2, <1>5 DEF Posted, Snapshots, PostRow
  <2>2. h \in Nat \ {0} /\ h > post.access
    BY <2>1 DEF Higher
  <2>3. /\ shown' = [shown EXCEPT !.access = h] /\ retry' = None
        /\ reads' = Asking(reads, Read(selected, FALSE, TRUE))
        /\ post' = [post EXCEPT !.phase = "loading"]
    BY <1>5, <2>1 DEF AccessChanged
  <2> HIDE DEF h
  <2>4. shown' \in Snapshots /\ shown'.session = selected /\ shown'.access = h
    BY <1>0, <2>1, <2>2, <2>3 DEF Snapshots
  <2>5. Viewed
    <3>1. ReadsPlaced(reads')
      BY <1>0, <2>1, <2>3, Asked
    <3> QED  BY <1>0, <1>2, <2>4, <3>1, ViewPlaced DEF Grows
  <2>6. shown' # None /\ AccessShown' = h
    BY <2>4, NullIsNone DEF AccessShown
  <2>7. \A x \in Requested' : x.message = draft' => x.access <= AccessShown' /\ x.access # AccessShown'
    <3>1. \A x \in Requested : x.access \in Nat
      BY <1>1 DEF ServerShape, Requested, RequestRow, SeenRow
    <3> QED  BY <1>2, <1>4, <2>1, <2>2, <2>6, <3>1
  <2>8. Composed'
    BY <1>1, <1>2, <2>3, <2>7 DEF Composed, Remembered
  <2>9. /\ post' \in PostRow /\ post'.kind = "access" /\ post'.phase = "loading" /\ post'.same
        /\ post'.session = post.session /\ post'.access = post.access
    BY <1>1, <1>2, <1>5, <2>3 DEF Posted, PostRow
  <2>10. Posted'
    BY <1>1, <1>2, <1>4, <1>5, <2>1, <2>6, <2>9 DEF Posted, Exists
  <2> QED  BY <1>3, <2>5, <2>8, <2>10 DEF PageInv, Viewed
<1>6. CASE ~(post.same /\ selected = post.session)
  <2>1. post' = NoPost /\ UNCHANGED <<shown, retry, reads>>
    BY <1>6 DEF AccessChanged
  <2>2. Composed'
    BY <1>1, <1>2, <1>4, <2>1 DEF Composed, Remembered, AccessShown, Twin
  <2>3. Posted'
    <3>1. NoPost \in PostRow /\ NoPost.kind = "none" /\ ~NoPost.same
      BY DEF NoPost, PostRow
    <3> QED  BY <2>1, <3>1 DEF Posted
  <2>4. Viewed
    BY <1>0, <1>2, <2>1, ViewPlaced DEF Grows
  <2> QED  BY <1>3, <2>2, <2>3, <2>4 DEF PageInv, Viewed
<1> QED  BY <1>5, <1>6

-----------------------------------------------------------------------------
(* Whatever is on its way, lost or repeated, what the page holds is of the
   selected session, and what it would send again is what it sent (AIOpsPage). *)
THEOREM PageInvHolds == Spec => []PageInv
<1>1. PageInv /\ [Next]_vars => PageInv'
  <2> SUFFICES ASSUME PageInv, [Next]_vars PROVE PageInv'
    OBVIOUS
  <2>1. CASE UNCHANGED vars
    BY <2>1
    DEF vars, PageInv, ServerShape, ViewShape, Placed, ShownIsSelected, Identified, OneId, Requested,
        Composed, Remembered, Posted, Exists, Twin, AccessShown
  <2>2. CASE Next
    BY <2>2, ReadSteps, StreamSteps, PickSteps, ServerSteps, ArrivalSteps, EditSteps, SendSteps,
       AnswerSteps, AccessSteps
    DEF Next
  <2> QED  BY <2>1, <2>2
<1> QED  BY PageInit, <1>1, PTL DEF Spec

(* The page never shows one session under the name of another (selectedRef,
   loadDetail).                                                              *)
THEOREM ShownIsSelectedHolds == Spec => []ShownIsSelected
<1>1. PageInv => ShownIsSelected
  BY DEF PageInv, Placed
<1> QED  BY <1>1, PageInvHolds, PTL

(* Under one access a message starts one turn, whatever was lost (send).     *)
THEOREM OneTurnPerMessageHolds == Spec => []OneTurnPerMessage
<1>1. PageInv => OneTurnPerMessage
  BY DEF PageInv, OneId, Identified, Requested, OneTurnPerMessage
<1> QED  BY <1>1, PageInvHolds, PTL
=============================================================================
