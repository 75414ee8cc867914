-------------------------- MODULE WhiteboardProofs --------------------------
(***************************************************************************)
(* Proofs about Whiteboard, for any number of events and ids: its types,   *)
(* what is never lost, repeated or numbered twice, and that undo takes an  *)
(* event off the board as if it had never been there.                      *)
(***************************************************************************)
EXTENDS Whiteboard, DrawEventsProofs, SequenceTheorems

-----------------------------------------------------------------------------
(* Lemmas about events and pictures *)

\* The traversal of get_active_events keeps every drawing no undo aims at,
\* also when the undos of a larger set are considered.
LEMMA UntargetedIsActive ==
    ASSUME NEW K, NEW E \in SUBSET K, NEW e \in E, e \in Untargeted(K)
    PROVE  e \in Active(E)
BY DEF Untargeted, Active, UndoneSeqs, Undos, Drawings

\* The picture of a set of events is a picture.
LEMMA PaintType ==
    ASSUME NEW E \in SUBSET Event, NEW p \in Picture
    PROVE  Paint(p, E) \in Picture
BY DEF Paint, Uids, Active, Drawings, Event, Picture

\* A further event only shrinks the set of untargeted drawings, by others than
\* itself.
LEMMA UntargetedShrinks ==
    ASSUME NEW E, NEW e
    PROVE  Untargeted(E \cup {e}) \subseteq Untargeted(E) \cup {e}
BY DEF Untargeted, Drawings, Undos

-----------------------------------------------------------------------------
(* Type correctness.  The cache is a function of the sequence number because *)
(* the numbers in it are never above _last_seq.                              *)

CachedBelow == \A e \in events : e.seq <= lastSeq

\* load_from_db establishes the types of what it sets.
LEMMA LoadedType ==
    ASSUME TypeOK, NEW s \in Snapshot, NEW E \in SUBSET rows, Loaded(s, E),
           \A e, f \in E : e.seq = f.seq => e = f
    PROVE  /\ events' \in SUBSET Event
           /\ known' \in SUBSET Event
           /\ \A e, f \in events' : e.seq = f.seq => e = f
           /\ snapshot' \in Picture
           /\ lastSnapshotSeq' \in Nat
           /\ lastSeq' \in Nat
           /\ CachedBelow'
<1>1. \A e \in E : e \in Event
  BY DEF TypeOK
<1>2. PICK n \in {s.seq} \cup Seqs(E) : lastSeq' = n /\ \A m \in Seqs(E) : m <= n
  BY DEF Loaded
<1>3. n \in Nat
  BY <1>1, <1>2 DEF Seqs, Event, Snapshot
<1> QED
  BY <1>1, <1>2, <1>3 DEF Loaded, CachedBelow, Seqs, Event, Snapshot

\* What a stopped snapshot thread may still write is a snapshot.
LEMMA LastWriteType ==
    ASSUME TypeOK PROVE LastWrite \in Snapshot
<1> DEFINE n == IF step = "sleep" THEN lastSeq ELSE upTo
<1>1. Paint(snapshot, UpToSeq(events, n)) \in Picture
  BY PaintType DEF TypeOK, UpToSeq
<1>2. n \in Nat
  BY DEF TypeOK
<1> HIDE DEF n
<1> QED
  BY <1>1, <1>2 DEF LastWrite, TypeOK, Snapshot, n

\* Every step keeps the types.
LEMMA BoardTypeStep ==
    ASSUME TypeOK, CachedBelow, [Next]_vars
    PROVE  TypeOK' /\ CachedBelow'
<1> USE WhiteboardAssumption
<1>1. CASE OpenRoom
  <2>1. stored \in Snapshot /\ [seq |-> 0, png |-> {}] \in Snapshot
    BY DEF TypeOK, Snapshot, Picture
  <2>2. \E s \in Snapshot, E \in SUBSET rows :
           Loaded(s, E) /\ \A e, f \in E : e.seq = f.seq => e = f
    <3>1. CASE \E E \in Loads(AfterSeq(rows, stored.seq)) : Loaded(stored, E)
      <4>1. PICK E \in Loads(AfterSeq(rows, stored.seq)) : Loaded(stored, E)
        BY <3>1
      <4>2. E \in SUBSET rows /\ \A e, f \in E : e.seq = f.seq => e = f
        BY <4>1 DEF Loads, AfterSeq
      <4> QED
        BY <2>1, <4>1, <4>2
    <3>2. CASE Loaded(stored, {})
      BY <2>1, <3>2
    <3>3. CASE Loaded([seq |-> 0, png |-> {}], {})
      BY <2>1, <3>3
    <3> QED
      BY <1>1, <3>1, <3>2, <3>3 DEF OpenRoom
  <2>3. /\ events' \in SUBSET Event
        /\ known' \in SUBSET Event
        /\ \A e, f \in events' : e.seq = f.seq => e = f
        /\ snapshot' \in Picture
        /\ lastSnapshotSeq' \in Nat
        /\ lastSeq' \in Nat
        /\ CachedBelow'
    BY <2>2, LoadedType
  <2> QED
    BY <1>1, <2>3 DEF OpenRoom, TypeOK, idVars, threadVars, dbVars, awayVars, readVars
<1>2. CASE CloseRoom
  <2>1. late' \in SUBSET Snapshot
    BY <1>2, LastWriteType DEF CloseRoom, TypeOK
  <2>2. history' \in Seq(Ids) /\ Len(history') <= HistoryLimit /\ sent' \in Seq(Ids)
    BY <1>2 DEF CloseRoom
  <2> QED
    BY <1>2, <2>1, <2>2 DEF CloseRoom, TypeOK, CachedBelow, Picture, dbVars, awayVars, readVars
<1>3. ASSUME NEW target \in 0..lastSeq, NEW id \in Ids \cup {NoId}, AddEvent(target, id)
      PROVE  TypeOK' /\ CachedBelow'
  <2> DEFINE e == [uid |-> accepted + 1, seq |-> lastSeq + 1, target |-> target]
  <2>1. e \in Event
    BY DEF Event, TypeOK
  <2>2. events' = events \cup {e} /\ known' = known \cup {e} /\ lastSeq' = lastSeq + 1
    BY <1>3 DEF AddEvent
  <2>3. \A f, g \in events' : f.seq = g.seq => f = g
    BY <2>1, <2>2 DEF TypeOK, CachedBelow, Event
  <2>4. rows' \in SUBSET Event
    BY <1>3, <2>1 DEF AddEvent, TypeOK
  <2>5. history' \in Seq(Ids) /\ Len(history') <= HistoryLimit
    <3>1. CASE id = NoId
      BY <1>3, <3>1 DEF AddEvent, TypeOK, idVars
    <3>2. CASE id # NoId
      <4>1. id \in Ids /\ Remember(id)
        BY <1>3, <3>2 DEF AddEvent
      <4>2. history \in Seq(Ids) /\ Len(history) \in Nat /\ Len(history) <= HistoryLimit
        BY LenProperties DEF TypeOK
      <4> DEFINE longer == Append(history, id)
      <4>3. longer \in Seq(Ids) /\ longer # <<>> /\ Len(longer) = Len(history) + 1
        BY <4>1, <4>2, AppendProperties
      <4>4. Tail(longer) \in Seq(Ids) /\ Len(Tail(longer)) = Len(longer) - 1
        BY <4>3, HeadTailProperties
      <4>5. history' = IF Len(longer) > HistoryLimit THEN Tail(longer) ELSE longer
        BY <4>1 DEF Remember
      <4> HIDE DEF longer
      <4> QED
        BY <4>2, <4>3, <4>4, <4>5
    <3> QED
      BY <3>1, <3>2
  <2>6. sent' \in Seq(Ids)
    <3>1. CASE id = NoId
      BY <1>3, <3>1 DEF AddEvent, TypeOK, idVars
    <3>2. CASE id # NoId
      <4>1. id \in Ids /\ sent' = Append(sent, id)
        BY <1>3, <3>2 DEF AddEvent
      <4>2. sent \in Seq(Ids)
        BY DEF TypeOK
      <4> QED
        BY <4>1, <4>2, AppendProperties
    <3> QED
      BY <3>1, <3>2
  <2>7. CachedBelow'
    BY <2>1, <2>2 DEF CachedBelow, TypeOK, Event
  <2> QED
    BY <1>3, <2>1, <2>2, <2>3, <2>4, <2>5, <2>6, <2>7 DEF AddEvent, TypeOK, threadVars, awayVars, readVars
<1>4. CASE SnapshotBegin
  BY <1>4 DEF SnapshotBegin, TypeOK, CachedBelow, boardVars, idVars, dbVars, awayVars, readVars
<1>5. CASE SnapshotRender
  <2>1. png' \in Picture
    BY <1>5, PaintType DEF SnapshotRender, TypeOK, UpToSeq
  <2> QED
    BY <1>5, <2>1 DEF SnapshotRender, TypeOK, CachedBelow, boardVars, idVars, dbVars, awayVars, readVars
<1>6. CASE SnapshotSave
  BY <1>6 DEF SnapshotSave, TypeOK, CachedBelow, Snapshot, boardVars, idVars, awayVars, readVars
<1>7. CASE SnapshotPrune
  BY <1>7 DEF SnapshotPrune, TypeOK, CachedBelow, AfterSeq, idVars, dbVars, awayVars, readVars
<1>8. ASSUME NEW w \in late, LateSave(w) PROVE TypeOK' /\ CachedBelow'
  BY <1>8 DEF LateSave, TypeOK, CachedBelow, boardVars, idVars, awayVars, readVars
<1>9. Uids(Untargeted(known)) \in Picture
  BY DEF Uids, Untargeted, Drawings, TypeOK, Event, Picture
<1>10. Uids(Active(events)) \in Picture
  BY DEF Uids, Active, Drawings, TypeOK, Event, Picture
<1>11. CASE SyncBegin
  BY <1>11, <1>9 DEF SyncBegin, Begin, TypeOK, CachedBelow, boardVars, idVars, threadVars, dbVars, awayVars
<1>12. CASE ExportBegin
  BY <1>12, <1>9, <1>10
  DEF ExportBegin, Begin, TypeOK, CachedBelow, boardVars, idVars, threadVars, dbVars, awayVars
<1>13. ASSUME NEW kind \in {"sync", "export"}, NEW p, Deliver(kind, p)
       PROVE  TypeOK' /\ CachedBelow'
  <2>1. missed' \in [{"sync", "export"} -> Picture]
    BY <1>13, <1>9 DEF Deliver, TypeOK, Picture
  <2> QED
    BY <1>13, <2>1 DEF Deliver, TypeOK, CachedBelow, Picture, boardVars, idVars, threadVars, dbVars, awayVars
<1>14. CASE SyncEnd
  BY <1>14, <1>13 DEF SyncEnd
<1>15. CASE ExportEnd
  BY <1>15, <1>13 DEF ExportEnd
<1>16. CASE UNCHANGED vars
  BY <1>16 DEF vars, boardVars, idVars, threadVars, dbVars, awayVars, readVars, TypeOK, CachedBelow
<1>17. CASE OpenElsewhere
  <2>1. PICK E \in Loads(AfterSeq(rows, stored.seq)) :
            \E n \in {stored.seq} \cup Seqs(E) :
                away' = [events |-> E, png |-> stored.png, seq |-> n]
    BY <1>17 DEF OpenElsewhere
  <2>2. E \in SUBSET Event /\ Seqs(E) \subseteq Nat /\ stored.seq \in Nat /\ stored.png \in Picture
    BY <2>1 DEF Loads, AfterSeq, Seqs, TypeOK, Event, Snapshot
  <2>3. away' \in Board
    BY <2>1, <2>2 DEF Board
  <2> QED
    BY <1>17, <2>3 DEF OpenElsewhere, TypeOK, CachedBelow, boardVars, idVars, threadVars, dbVars, readVars
<1>18. ASSUME NEW target \in 0..away.seq, AddElsewhere(target) PROVE TypeOK' /\ CachedBelow'
  <2> DEFINE e == [uid |-> accepted + 1, seq |-> away.seq + 1, target |-> target]
  <2>1. away \in Board /\ accepted \in Nat /\ rows \in SUBSET Event
    BY DEF TypeOK
  <2>2. away.events \in SUBSET Event /\ away.png \in Picture /\ away.seq \in Nat
    BY <2>1 DEF Board
  <2>3. e \in Event
    BY <2>1, <2>2 DEF Event
  <2>4. /\ rows' = rows \cup {e} /\ accepted' = accepted + 1
        /\ away' = [away EXCEPT !.events = @ \cup {e}, !.seq = @ + 1]
    BY <1>18 DEF AddElsewhere
  <2> HIDE DEF e
  <2>5. away' \in Board
    <3>1. away' = [events |-> away.events \cup {e}, png |-> away.png, seq |-> away.seq + 1]
      BY <2>1, <2>4 DEF Board
    <3> QED
      BY <2>2, <2>3, <3>1 DEF Board
  <2>6. rows' \in SUBSET Event /\ accepted' \in Nat
    BY <2>1, <2>3, <2>4
  <2> QED
    BY <1>18, <2>5, <2>6 DEF AddElsewhere, TypeOK, CachedBelow, idVars, threadVars, readVars
<1>19. ASSUME NEW n \in Seqs(away.events), SaveElsewhere(n) PROVE TypeOK' /\ CachedBelow'
  <2> DEFINE picture == Paint(away.png, UpToSeq(away.events, n))
  <2>1. away \in Board
    BY DEF TypeOK
  <2>2. away.events \in SUBSET Event /\ away.png \in Picture /\ away.seq \in Nat
    BY <2>1 DEF Board
  <2>3. n \in Nat
    BY <2>2 DEF Seqs, Event
  <2>4. picture \in Picture
    BY <2>2, PaintType DEF UpToSeq
  <2>5. /\ stored' = [seq |-> n, png |-> picture]
        /\ away' = [away EXCEPT !.events = AfterSeq(@, n), !.png = picture]
    BY <1>19 DEF SaveElsewhere
  <2> HIDE DEF picture
  <2>6. away' \in Board /\ stored' \in Snapshot
    BY <2>1, <2>2, <2>3, <2>4, <2>5 DEF Board, Snapshot, AfterSeq
  <2> QED
    BY <1>19, <2>6 DEF SaveElsewhere, TypeOK, CachedBelow, boardVars, idVars, threadVars, readVars
<1>20. CASE ExportFails
  BY <1>20 DEF ExportFails, TypeOK, CachedBelow, Picture, boardVars, idVars, threadVars, dbVars, awayVars
<1> QED
  BY <1>1, <1>2, <1>3, <1>4, <1>5, <1>6, <1>7, <1>8, <1>11, <1>12, <1>14, <1>15, <1>16, <1>17, <1>18, <1>19, <1>20
  DEF Next

\* The initial state has the types.
LEMMA BoardInit == Init => TypeOK /\ CachedBelow
<1> SUFFICES ASSUME Init PROVE TypeOK /\ CachedBelow
  OBVIOUS
<1>1. history \in Seq(Ids) /\ Len(history) <= HistoryLimit /\ sent \in Seq(Ids)
  BY WhiteboardAssumption, EmptySeq DEF Init
<1>2. missed \in [{"sync", "export"} -> Picture]
  BY DEF Init, Picture
<1> QED
  BY <1>1, <1>2 DEF Init, TypeOK, CachedBelow, Snapshot, Picture, Board

\* The whiteboard of a room keeps its types; in particular the cache has one
\* event per sequence number and the id history never outgrows its limit.
THEOREM BoardTypeCorrect == Spec => []TypeOK
<1>1. Init => TypeOK /\ CachedBelow
  BY BoardInit
<1>2. TypeOK /\ CachedBelow /\ [Next]_vars => (TypeOK /\ CachedBelow)'
  BY BoardTypeStep
<1> QED
  BY <1>1, <1>2, PTL DEF Spec

-----------------------------------------------------------------------------
(* Repeated events.  The history is the end of the sequence of accepted ids, *)
(* all of it or as much as the history may hold.                             *)

HistoryInv ==
    /\ Len(history) <= Len(sent)
    /\ Len(history) < HistoryLimit => Len(history) = Len(sent)
    /\ \A k \in 1..Len(history) : history[k] = sent[Len(sent) - Len(history) + k]
    /\ AcceptedOnce

\* Remembering an id that is not in the history keeps it.
LEMMA RememberStep ==
    ASSUME TypeOK, HistoryInv, NEW id \in Ids,
           \A i \in 1..Len(history) : history[i] # id,
           Remember(id), sent' = Append(sent, id)
    PROVE  HistoryInv'
<1> DEFINE h == Len(history)
           n == Len(sent)
           longer == Append(history, id)
<1>1. h \in Nat /\ n \in Nat /\ h <= HistoryLimit /\ HistoryLimit \in Nat
  BY LenProperties, WhiteboardAssumption DEF TypeOK
<1>2. /\ Len(sent') = n + 1 /\ sent'[n + 1] = id
      /\ \A i \in 1..n : sent'[i] = sent[i]
  BY AppendProperties DEF TypeOK
<1>3. /\ longer \in Seq(Ids) /\ longer # <<>> /\ Len(longer) = h + 1
      /\ longer[h + 1] = id /\ \A i \in 1..h : longer[i] = history[i]
  BY AppendProperties DEF TypeOK
<1>4. history' = IF Len(longer) > HistoryLimit THEN Tail(longer) ELSE longer
  BY DEF Remember
<1>5. /\ Len(Tail(longer)) = h
      /\ \A i \in 1..h : Tail(longer)[i] = longer[i + 1]
  BY <1>1, <1>3, HeadTailProperties
<1>6. /\ h <= n
      /\ h < HistoryLimit => h = n
      /\ \A k \in 1..h : history[k] = sent[n - h + k]
  BY DEF HistoryInv
<1> HIDE DEF longer, h, n
<1>7. AcceptedOnce'
  <2> SUFFICES ASSUME NEW i \in 1..(n + 1), NEW j \in 1..(n + 1), i < j, sent'[i] = sent'[j]
               PROVE  j - i > HistoryLimit
    BY <1>2 DEF AcceptedOnce
  <2>1. CASE j \in 1..n
    <3>1. i \in 1..n /\ sent[i] = sent[j]
      BY <1>1, <1>2, <2>1
    <3>2. \A k, l \in 1..n : k < l /\ sent[k] = sent[l] => l - k > HistoryLimit
      BY DEF HistoryInv, AcceptedOnce, n
    <3> QED
      BY <2>1, <3>1, <3>2
  <2>2. CASE j = n + 1
    <3>1. i \in 1..n /\ sent[i] = id
      BY <1>1, <1>2, <2>2
    <3>2. i <= n - h
      <4>1. SUFFICES ASSUME i > n - h PROVE FALSE
        BY <1>1
      <4>2. i - (n - h) \in 1..h /\ n - h + (i - (n - h)) = i
        BY <1>1, <1>6, <3>1, <4>1
      <4>3. history[i - (n - h)] = id
        BY <1>6, <3>1, <4>2
      <4> QED
        BY <4>2, <4>3 DEF h
    <3>3. h = HistoryLimit
      BY <1>1, <1>6, <3>1, <3>2
    <3> QED
      BY <1>1, <2>2, <3>1, <3>2, <3>3
  <2> QED
    BY <1>1, <2>1, <2>2
<1>8. CASE h < HistoryLimit
  <2>1. history' = longer /\ h = n
    BY <1>1, <1>3, <1>4, <1>6, <1>8
  <2>2. \A k \in 1..(h + 1) : longer[k] = sent'[k]
    BY <1>1, <1>2, <1>3, <1>6, <2>1
  <2>3. Len(history') = h + 1 /\ Len(sent') = h + 1
    BY <1>2, <1>3, <2>1
  <2>4. \A k \in 1..(h + 1) : history'[k] = sent'[(h + 1) - (h + 1) + k]
    <3>1. \A k \in 1..(h + 1) : (h + 1) - (h + 1) + k = k
      BY <1>1
    <3> QED
      BY <2>1, <2>2, <3>1, Zenon
  <2> QED
    BY <1>1, <1>7, <2>3, <2>4 DEF HistoryInv
<1>9. CASE h = HistoryLimit
  <2>1. history' = Tail(longer)
    BY <1>1, <1>3, <1>4, <1>9
  <2>2. ASSUME NEW k \in 1..h PROVE Tail(longer)[k] = sent'[(n + 1) - h + k]
    <3>1. CASE k = h
      BY <1>1, <1>2, <1>3, <1>5, <3>1
    <3>2. CASE k < h
      <4>1. Tail(longer)[k] = history[k + 1]
        <5>1. k + 1 \in 1..h
          BY <1>1, <3>2
        <5>2. Tail(longer)[k] = longer[k + 1]
          BY <1>5, <2>2
        <5> QED
          BY <1>3, <5>1, <5>2, Zenon
      <4>2. history[k + 1] = sent[n - h + (k + 1)]
        BY <1>1, <1>6, <3>2
      <4>3. n - h + (k + 1) = (n + 1) - h + k /\ (n + 1) - h + k \in 1..n
        BY <1>1, <1>6, <3>2
      <4> QED
        BY <1>2, <4>1, <4>2, <4>3, Zenon
    <3>3. k = h \/ k < h
      BY <1>1, <2>2
    <3> QED
      BY <3>1, <3>2, <3>3, Zenon
  <2>3. Len(history') = h /\ Len(sent') = n + 1
    BY <1>2, <1>5, <2>1
  <2>4. \A k \in 1..h : history'[k] = sent'[(n + 1) - h + k]
    BY <2>1, <2>2, Zenon
  <2>5. h <= n + 1 /\ ~(h < HistoryLimit)
    BY <1>1, <1>6, <1>9
  <2> QED
    BY <1>7, <2>3, <2>4, <2>5 DEF HistoryInv
<1> QED
  BY <1>1, <1>8, <1>9

\* Only add_event and the end of the room touch the ids.
LEMMA HistoryStep ==
    ASSUME TypeOK, HistoryInv, [Next]_vars
    PROVE  HistoryInv'
<1>1. CASE UNCHANGED idVars
  BY <1>1 DEF HistoryInv, AcceptedOnce, idVars
<1>2. CASE CloseRoom
  <2>1. Len(history') = 0 /\ Len(sent') = 0
    BY <1>2, EmptySeq DEF CloseRoom
  <2> QED
    BY <2>1 DEF HistoryInv, AcceptedOnce
<1>3. ASSUME NEW target \in 0..lastSeq, NEW id \in Ids \cup {NoId}, AddEvent(target, id)
      PROVE  HistoryInv'
  <2>1. CASE id = NoId
    BY <1>1, <1>3, <2>1 DEF AddEvent
  <2>2. CASE id # NoId
    BY <1>3, <2>2, RememberStep DEF AddEvent
  <2> QED
    BY <2>1, <2>2
<1>4. CASE OpenRoom
  BY <1>1, <1>4 DEF OpenRoom
<1>5. CASE SnapshotBegin \/ SnapshotRender \/ SnapshotSave \/ SnapshotPrune
  BY <1>1, <1>5 DEF SnapshotBegin, SnapshotRender, SnapshotSave, SnapshotPrune
<1>6. ASSUME NEW w \in late, LateSave(w) PROVE HistoryInv'
  BY <1>1, <1>6 DEF LateSave
<1>7. CASE SyncBegin \/ SyncEnd \/ ExportBegin \/ ExportEnd \/ ExportFails
  BY <1>1, <1>7 DEF SyncBegin, SyncEnd, ExportBegin, ExportEnd, ExportFails, Begin, Deliver
<1>8. CASE UNCHANGED vars
  BY <1>1, <1>8 DEF vars
<1>9. CASE \/ OpenElsewhere \/ \E target \in 0..away.seq : AddElsewhere(target)
           \/ \E n \in Seqs(away.events) : SaveElsewhere(n)
  BY <1>1, <1>9 DEF OpenElsewhere, AddElsewhere, SaveElsewhere
<1> QED
  BY <1>2, <1>3, <1>4, <1>5, <1>6, <1>7, <1>8, <1>9 DEF Next

\* A repeated event is accepted again only after as many others as the
\* history holds.
THEOREM EventsAcceptedOnce == Spec => []AcceptedOnce
<1>1. Init => HistoryInv
  BY DEF Init, HistoryInv, AcceptedOnce
<1>2. TypeOK /\ HistoryInv /\ [Next]_vars => HistoryInv'
  BY HistoryStep
<1>3. HistoryInv => AcceptedOnce
  BY DEF HistoryInv
<1> QED
  BY <1>1, <1>2, <1>3, BoardTypeCorrect, PTL DEF Spec

-----------------------------------------------------------------------------
(* No drawing is lost.  What has not been undone is in the snapshot or in    *)
(* the cache, and once rendered it is in the picture or was accepted later.  *)

Kept(p, n) ==
    \A e \in Untargeted(known) : e.uid \in p \/ (e \in events /\ e.seq > n)

BoardInv ==
    /\ TypeOK
    /\ events \subseteq known
    /\ \A e \in Untargeted(known) : e.uid \in snapshot \/ e \in events
    /\ step # "sleep" => open /\ upTo <= lastSeq
    /\ reader # "idle" => open
    /\ step \in {"save", "prune"} => snapshot \subseteq png /\ Kept(png, upTo)

\* Rendering the events up to a number keeps every drawing up to it.
LEMMA RenderKeeps ==
    ASSUME BoardInv, NEW n \in Nat
    PROVE  Kept(Paint(snapshot, UpToSeq(events, n)), n)
<1> SUFFICES ASSUME NEW e \in Untargeted(known), e.uid \notin snapshot,
                    ~(e \in events /\ e.seq > n)
             PROVE  e.uid \in Paint(snapshot, UpToSeq(events, n))
  BY DEF Kept, Paint
<1>1. e \in events /\ e.seq \in Nat
  BY DEF BoardInv, TypeOK, Event
<1>2. e \in UpToSeq(events, n)
  BY <1>1 DEF UpToSeq
<1>3. UpToSeq(events, n) \in SUBSET known
  BY DEF BoardInv, UpToSeq
<1>4. e \in Active(UpToSeq(events, n))
  BY <1>2, <1>3, UntargetedIsActive
<1> QED
  BY <1>4 DEF Paint, Uids

\* Every step keeps BoardInv.
LEMMA BoardStep ==
    ASSUME BoardInv, TypeOK', [Next]_vars
    PROVE  BoardInv'
<1>1. CASE OpenRoom
  <2>1. \E s, E : Loaded(s, E)
    BY <1>1 DEF OpenRoom
  <2>2. events' = known'
    BY <2>1 DEF Loaded
  <2>3. step' = "sleep"
    BY <1>1 DEF OpenRoom, BoardInv, threadVars
  <2> QED
    BY <1>1, <2>2, <2>3 DEF OpenRoom, BoardInv, Untargeted, Drawings
<1>2. CASE CloseRoom
  BY <1>2 DEF CloseRoom, BoardInv, Untargeted, Drawings, readVars
<1>3. ASSUME NEW target \in 0..lastSeq, NEW id \in Ids \cup {NoId}, AddEvent(target, id)
      PROVE  BoardInv'
  <2> DEFINE e == [uid |-> accepted + 1, seq |-> lastSeq + 1, target |-> target]
  <2>1. /\ events' = events \cup {e} /\ known' = known \cup {e}
        /\ lastSeq' = lastSeq + 1
        /\ UNCHANGED <<open, snapshot, step, upTo, png, reader>>
    BY <1>3 DEF AddEvent, threadVars, readVars
  <2>2. Untargeted(known') \subseteq Untargeted(known) \cup {e}
    <3> HIDE DEF e
    <3> QED
      BY <2>1, UntargetedShrinks
  <2>3. step # "sleep" => e.seq > upTo
    BY DEF BoardInv, TypeOK
  <2>4. step \in {"save", "prune"} => Kept(png, upTo)'
    BY <2>1, <2>2, <2>3 DEF BoardInv, Kept
  <2>5. upTo <= lastSeq => upTo' <= lastSeq'
    BY <2>1 DEF BoardInv, TypeOK
  <2> QED
    BY <2>1, <2>2, <2>4, <2>5 DEF BoardInv
<1>4. CASE SnapshotBegin
  BY <1>4 DEF SnapshotBegin, BoardInv, TypeOK, boardVars, readVars
<1>12. CASE SnapshotRender /\ step' = "sleep"
  BY <1>12 DEF SnapshotRender, BoardInv, boardVars, readVars
<1>5. CASE SnapshotRender /\ step' # "sleep"
  <2>1. png' = Paint(snapshot, UpToSeq(events, upTo)) /\ step' = "save"
    BY <1>5 DEF SnapshotRender
  <2>2. Kept(png', upTo)
    BY <2>1, RenderKeeps DEF BoardInv, TypeOK
  <2>3. snapshot \subseteq png'
    BY <2>1 DEF Paint
  <2> QED
    BY <1>5, <2>2, <2>3 DEF SnapshotRender, BoardInv, Kept, boardVars, readVars
<1>6. CASE SnapshotSave
  BY <1>6 DEF SnapshotSave, BoardInv, Kept, boardVars, readVars
<1>7. CASE SnapshotPrune
  BY <1>7 DEF SnapshotPrune, BoardInv, Kept, AfterSeq, readVars
<1>8. ASSUME NEW w \in late, LateSave(w) PROVE BoardInv'
  BY <1>8 DEF LateSave, BoardInv, Kept, boardVars, readVars
<1>9. CASE SyncBegin \/ ExportBegin
  BY <1>9 DEF SyncBegin, ExportBegin, Begin, BoardInv, Kept, boardVars, threadVars
<1>10. CASE SyncEnd \/ ExportEnd \/ ExportFails
  BY <1>10 DEF SyncEnd, ExportEnd, ExportFails, Deliver, BoardInv, Kept, boardVars, threadVars
<1>11. CASE UNCHANGED vars
  BY <1>11 DEF vars, boardVars, threadVars, BoardInv, Kept, readVars
<1>13. CASE \/ OpenElsewhere \/ \E target \in 0..away.seq : AddElsewhere(target)
            \/ \E n \in Seqs(away.events) : SaveElsewhere(n)
  BY <1>13 DEF OpenElsewhere, AddElsewhere, SaveElsewhere, BoardInv, Kept, boardVars, threadVars, readVars
<1> QED
  BY <1>1, <1>2, <1>3, <1>4, <1>5, <1>6, <1>7, <1>8, <1>9, <1>10, <1>11, <1>12, <1>13 DEF Next

\* The whole of it is an invariant.
LEMMA BoardInvariant == Spec => []BoardInv
<1>1. Init => BoardInv
  <2>1. Init => TypeOK /\ CachedBelow
    BY BoardInit
  <2> QED
    BY <2>1 DEF Init, BoardInv, Untargeted, Drawings
<1>2. BoardInv /\ TypeOK' /\ [Next]_vars => BoardInv'
  BY BoardStep
<1> QED
  BY <1>1, <1>2, BoardTypeCorrect, PTL DEF Spec

\* The snapshot thread never loses a drawing, whatever is drawn while it
\* renders, writes and prunes and whatever the database does.
THEOREM NoDrawLost == Spec => []NoLostDraw
<1>1. BoardInv => NoLostDraw
  <2> SUFFICES ASSUME BoardInv, NEW e \in Untargeted(known), e.uid \notin snapshot
               PROVE  e.uid \in Uids(Active(events))
    BY DEF NoLostDraw, Visible, Paint, Uids
  <2>1. e \in events /\ events \in SUBSET known
    BY DEF BoardInv
  <2>2. e \in Active(events)
    BY <2>1, UntargetedIsActive
  <2> QED
    BY <2>2 DEF Uids
<1> QED
  BY <1>1, BoardInvariant, PTL

-----------------------------------------------------------------------------
(* Exports.  Reading the events before the snapshot under them is the safe   *)
(* order: a drawing can only move from the first to the second.              *)

ExportInv ==
    /\ \A e \in known \cup rows : e.uid <= accepted
    /\ \A n \in due : n <= accepted
    /\ reader = "export" =>
          \A e \in Untargeted(known) : e.uid \in due => e.uid \in got \cup snapshot
    /\ missed["export"] = {}

\* Every step keeps ExportInv.
LEMMA ExportStep ==
    ASSUME BoardInv, ExportInv, [Next]_vars
    PROVE  ExportInv'
<1>1. CASE OpenRoom
  <2>1. \E s, E : E \subseteq rows /\ Loaded(s, E)
    BY <1>1 DEF OpenRoom, Loads, AfterSeq
  <2>2. known' \subseteq rows
    BY <2>1 DEF Loaded
  <2>3. reader # "export"
    BY <1>1 DEF OpenRoom, BoardInv
  <2> QED
    BY <1>1, <2>2, <2>3 DEF OpenRoom, ExportInv, dbVars, readVars
<1>2. CASE CloseRoom
  BY <1>2 DEF CloseRoom, ExportInv, dbVars, readVars
<1>3. ASSUME NEW target \in 0..lastSeq, NEW id \in Ids \cup {NoId}, AddEvent(target, id)
      PROVE  ExportInv'
  <2> DEFINE e == [uid |-> accepted + 1, seq |-> lastSeq + 1, target |-> target]
  <2>1. /\ known' = known \cup {e} /\ accepted' = accepted + 1
        /\ rows' \subseteq rows \cup {e}
        /\ UNCHANGED <<snapshot, reader, got, due, missed>>
    BY <1>3 DEF AddEvent, readVars
  <2>2. Untargeted(known') \subseteq Untargeted(known) \cup {e}
    <3> HIDE DEF e
    <3> QED
      BY <2>1, UntargetedShrinks
  <2>3. accepted \in Nat /\ \A n \in due : n \in Nat
    BY DEF BoardInv, TypeOK, Picture
  <2>4. e.uid \notin due
    BY <2>3 DEF ExportInv
  <2>5. \A f \in known \cup rows : f.uid \in Nat
    BY DEF BoardInv, TypeOK, Event
  <2>6. \A f \in known' \cup rows' : f.uid <= accepted'
    BY <2>1, <2>3, <2>5 DEF ExportInv
  <2>7. \A n \in due' : n <= accepted'
    BY <2>1, <2>3 DEF ExportInv
  <2>8. reader' = "export" =>
           \A f \in Untargeted(known') : f.uid \in due' => f.uid \in got' \cup snapshot'
    BY <2>1, <2>2, <2>4 DEF ExportInv
  <2> QED
    BY <2>1, <2>6, <2>7, <2>8 DEF ExportInv
<1>4. CASE SnapshotBegin \/ SnapshotRender \/ SnapshotSave
  BY <1>4 DEF SnapshotBegin, SnapshotRender, SnapshotSave, ExportInv, boardVars, dbVars, readVars
<1>5. CASE SnapshotPrune
  BY <1>5 DEF SnapshotPrune, ExportInv, BoardInv, dbVars, readVars
<1>6. ASSUME NEW w \in late, LateSave(w) PROVE ExportInv'
  BY <1>6 DEF LateSave, ExportInv, boardVars, readVars
<1>7. CASE SyncBegin
  BY <1>7 DEF SyncBegin, Begin, ExportInv, Uids, Untargeted, Drawings, boardVars, dbVars
<1>8. CASE ExportBegin
  <2>1. /\ got' = Uids(Active(events)) /\ due' = Uids(Untargeted(known))
        /\ UNCHANGED <<missed, snapshot, known, rows, accepted>>
    BY <1>8 DEF ExportBegin, Begin, boardVars, dbVars
  <2>2. \A e \in Untargeted(known) : e.uid \in snapshot \/ e \in Active(events)
    BY UntargetedIsActive DEF BoardInv
  <2>3. \A n \in due' : n <= accepted
    BY <2>1 DEF ExportInv, Uids, Untargeted, Drawings
  <2> QED
    BY <2>1, <2>2, <2>3 DEF ExportInv, Uids
<1>9. CASE SyncEnd
  BY <1>9 DEF SyncEnd, Deliver, ExportInv, boardVars, dbVars
<1>10. CASE ExportEnd
  <2>1. (due \cap Uids(Untargeted(known))) \ (got \cup snapshot) = {}
    BY <1>10 DEF ExportEnd, ExportInv, Uids
  <2>2. missed'["export"] = {}
    BY <1>10, <2>1 DEF ExportEnd, Deliver, BoardInv, TypeOK
  <2> QED
    BY <1>10, <2>2 DEF ExportEnd, Deliver, ExportInv, boardVars, dbVars
<1>11. CASE UNCHANGED vars
  BY <1>11 DEF vars, boardVars, dbVars, readVars, ExportInv
<1>12. CASE OpenElsewhere \/ \E n \in Seqs(away.events) : SaveElsewhere(n)
  BY <1>12 DEF OpenElsewhere, SaveElsewhere, ExportInv, boardVars, dbVars, readVars
<1>13. ASSUME NEW target \in 0..away.seq, AddElsewhere(target) PROVE ExportInv'
  <2> DEFINE e == [uid |-> accepted + 1, seq |-> away.seq + 1, target |-> target]
  <2>1. /\ accepted' = accepted + 1 /\ rows' = rows \cup {e}
        /\ UNCHANGED <<known, snapshot, reader, got, due, missed>>
    BY <1>13 DEF AddElsewhere, readVars
  <2>2. e.uid = accepted + 1
    OBVIOUS
  <2>3. /\ accepted \in Nat /\ \A n \in due : n \in Nat
        /\ \A f \in known \cup rows : f.uid \in Nat
    BY DEF BoardInv, TypeOK, Picture, Event
  <2> HIDE DEF e
  <2> QED
    BY <2>1, <2>2, <2>3 DEF ExportInv
<1>14. CASE ExportFails
  BY <1>14 DEF ExportFails, ExportInv, boardVars, dbVars
<1> QED
  BY <1>1, <1>2, <1>3, <1>4, <1>5, <1>6, <1>7, <1>8, <1>9, <1>10, <1>11, <1>12, <1>13, <1>14 DEF Next

\* An exported picture misses nothing that was on the board when the export
\* began, although render_png takes the lock twice.
THEOREM ExportsAreComplete == Spec => []ExportComplete
<1>1. Init => ExportInv
  BY DEF Init, ExportInv
<1>2. BoardInv /\ ExportInv /\ [Next]_vars => ExportInv'
  BY ExportStep
<1>3. ExportInv => ExportComplete
  BY DEF ExportInv, ExportComplete
<1> QED
  BY <1>1, <1>2, <1>3, BoardInvariant, PTL DEF Spec

-----------------------------------------------------------------------------
(* A database that does not fail.  Every picture that is in the snapshot     *)
(* table, or may still come there, covers the rows up to its number, and the *)
(* cache is the rest of the rows.                                            *)

Covers(n, p) == \A e \in Untargeted(rows) : e.uid \in p \/ e.seq > n

RowsInv ==
    /\ Seqs(rows) = 1..accepted
    /\ \A e, f \in rows : e.seq = f.seq => e = f
    /\ stored.seq <= accepted /\ Covers(stored.seq, stored.png)
    /\ \A w \in late : w.seq <= accepted /\ Covers(w.seq, w.png)

CacheInv ==
    /\ open => /\ lastSeq = accepted
               /\ lastSnapshotSeq <= accepted
               /\ events = AfterSeq(rows, lastSnapshotSeq)
               /\ Covers(lastSnapshotSeq, snapshot)
    /\ step # "sleep" => lastSnapshotSeq <= upTo /\ upTo <= accepted
    /\ step \in {"save", "prune"} => Covers(upTo, png)

\* What the snapshot thread paints covers the rows up to its number.
LEMMA PaintCovers ==
    ASSUME BoardInv, RowsInv, CacheInv, open, NEW n \in Nat
    PROVE  Covers(n, Paint(snapshot, UpToSeq(events, n)))
<1> SUFFICES ASSUME NEW e \in Untargeted(rows), e.uid \notin snapshot, ~(e.seq > n)
             PROVE  e.uid \in Paint(snapshot, UpToSeq(events, n))
  BY DEF Covers, Paint
<1>1. e \in rows /\ e.seq \in Nat
  BY DEF Untargeted, Drawings, BoardInv, TypeOK, Event
<1>2. e \in events
  BY <1>1 DEF CacheInv, Covers, AfterSeq
<1>3. e \in UpToSeq(events, n) /\ UpToSeq(events, n) \in SUBSET rows
  BY <1>1, <1>2 DEF UpToSeq, CacheInv, AfterSeq
<1>4. e \in Active(UpToSeq(events, n))
  BY <1>3, UntargetedIsActive
<1> QED
  BY <1>4 DEF Paint, Uids

\* The write a stopped thread still makes is one that covers its rows.
LEMMA LastWriteCovers ==
    ASSUME BoardInv, RowsInv, CacheInv, open
    PROVE  LastWrite.seq <= accepted /\ Covers(LastWrite.seq, LastWrite.png)
<1> DEFINE n == IF step = "sleep" THEN lastSeq ELSE upTo
<1>1. n \in Nat /\ n <= accepted
  BY DEF BoardInv, TypeOK, CacheInv
<1>2. Covers(n, Paint(snapshot, UpToSeq(events, n)))
  BY <1>1, PaintCovers
<1>3. CASE step = "save"
  BY <1>1, <1>3 DEF LastWrite, CacheInv
<1>4. CASE step # "save"
  <2>1. LastWrite = [seq |-> n, png |-> Paint(snapshot, UpToSeq(events, n))]
    BY <1>4 DEF LastWrite
  <2> HIDE DEF n
  <2> QED
    BY <1>1, <1>2, <2>1
<1> QED
  BY <1>3, <1>4

\* Without database failures and a second server every step keeps both.
LEMMA RowsStep ==
    ASSUME ~DbFails, ~split', BoardInv, RowsInv, CacheInv, [Next]_vars
    PROVE  RowsInv' /\ CacheInv'
<1>1. CASE OpenRoom
  <2>1. PICK E \in Loads(AfterSeq(rows, stored.seq)) : Loaded(stored, E)
    BY <1>1 DEF OpenRoom
  <2>2. E = AfterSeq(rows, stored.seq)
    BY <2>1 DEF Loads, AfterSeq, Seqs, RowsInv
  <2>3. PICK n \in {stored.seq} \cup Seqs(E) : lastSeq' = n /\ \A m \in Seqs(E) : m <= n
    BY <2>1 DEF Loaded
  <2>4. stored.seq \in Nat /\ accepted \in Nat
    BY DEF BoardInv, TypeOK, Snapshot
  <2>5. Seqs(E) = (stored.seq + 1)..accepted
    BY <2>2, <2>4 DEF Seqs, AfterSeq, RowsInv
  <2>6. lastSeq' = accepted
    <3>1. stored.seq <= accepted
      BY DEF RowsInv
    <3>2. CASE stored.seq = accepted
      BY <2>3, <2>4, <2>5, <3>2
    <3>3. CASE stored.seq < accepted
      <4>1. accepted \in Seqs(E)
        BY <2>4, <2>5, <3>3
      <4>2. accepted <= n
        BY <2>3, <4>1
      <4>3. n \in Nat /\ n <= accepted
        BY <2>3, <2>4, <2>5, <3>1
      <4> QED
        BY <2>3, <2>4, <4>2, <4>3
    <3> QED
      BY <2>4, <3>1, <3>2, <3>3
  <2>7. /\ events' = AfterSeq(rows, stored.seq)
        /\ lastSnapshotSeq' = stored.seq /\ snapshot' = stored.png
    BY <2>1, <2>2 DEF Loaded
  <2>8. UNCHANGED <<rows, stored, late, accepted, step, upTo, png>> /\ step = "sleep"
    BY <1>1 DEF OpenRoom, threadVars, dbVars, BoardInv
  <2> QED
    BY <2>6, <2>7, <2>8 DEF RowsInv, CacheInv, Covers
<1>2. CASE CloseRoom
  <2>1. LastWrite.seq <= accepted /\ Covers(LastWrite.seq, LastWrite.png)
    BY <1>2, LastWriteCovers DEF CloseRoom
  <2>2. /\ late' \subseteq late \cup {LastWrite} /\ ~open' /\ step' = "sleep"
        /\ UNCHANGED <<rows, stored, accepted>>
    BY <1>2 DEF CloseRoom, dbVars
  <2> QED
    BY <2>1, <2>2 DEF RowsInv, CacheInv, Covers
<1>3. ASSUME NEW target \in 0..lastSeq, NEW id \in Ids \cup {NoId}, AddEvent(target, id)
      PROVE  RowsInv' /\ CacheInv'
  <2> DEFINE e == [uid |-> accepted + 1, seq |-> lastSeq + 1, target |-> target]
  <2>1. /\ events' = events \cup {e} /\ rows' = rows \cup {e}
        /\ accepted' = accepted + 1 /\ lastSeq' = lastSeq + 1 /\ open
        /\ UNCHANGED <<open, lastSnapshotSeq, snapshot, stored, late, step, upTo, png>>
    BY <1>3 DEF AddEvent, threadVars
  <2>2. Untargeted(rows') \subseteq Untargeted(rows) \cup {e}
    <3> HIDE DEF e
    <3> QED
      BY <2>1, UntargetedShrinks
  <2>3. lastSeq = accepted /\ accepted \in Nat
    BY <2>1 DEF CacheInv, BoardInv, TypeOK
  <2>4. ASSUME NEW n \in Nat, NEW p, n <= accepted, Covers(n, p)
        PROVE  Covers(n, p)'
    BY <2>1, <2>2, <2>3, <2>4 DEF Covers
  <2>5. /\ stored.seq \in Nat /\ lastSnapshotSeq \in Nat /\ upTo \in Nat
        /\ \A w \in late : w.seq \in Nat
    BY DEF BoardInv, TypeOK, Snapshot
  <2>6. Seqs(rows') = 1..accepted'
    <3>1. Seqs(rows') = Seqs(rows) \cup {e.seq}
      BY <2>1 DEF Seqs
    <3>2. e.seq = accepted + 1
      BY <2>3
    <3>3. Seqs(rows) = 1..accepted
      BY DEF RowsInv
    <3>4. (1..accepted) \cup {accepted + 1} = 1..(accepted + 1)
      BY <2>3
    <3>5. accepted' = accepted + 1
      BY <2>1
    <3> QED
      BY <3>1, <3>2, <3>3, <3>4, <3>5, Zenon
  <2>7. \A f, g \in rows' : f.seq = g.seq => f = g
    BY <2>1, <2>3 DEF RowsInv, Seqs
  <2>8. events' = AfterSeq(rows', lastSnapshotSeq)
    BY <2>1, <2>3, <2>5 DEF CacheInv, AfterSeq
  <2>9. RowsInv'
    <3>1. stored'.seq <= accepted' /\ Covers(stored.seq, stored.png)'
      BY <2>1, <2>3, <2>4, <2>5 DEF RowsInv
    <3>2. \A w \in late : w.seq <= accepted' /\ Covers(w.seq, w.png)'
      BY <2>1, <2>3, <2>4, <2>5 DEF RowsInv
    <3> QED
      BY <2>1, <2>6, <2>7, <3>1, <3>2 DEF RowsInv
  <2>10. CacheInv'
    <3>1. Covers(lastSnapshotSeq, snapshot)'
      BY <2>1, <2>4, <2>5 DEF CacheInv
    <3>2. step \in {"save", "prune"} => Covers(upTo, png)'
      BY <2>1, <2>4, <2>5 DEF CacheInv
    <3>3. lastSeq' = accepted' /\ lastSnapshotSeq' <= accepted'
      BY <2>1, <2>3, <2>5 DEF CacheInv
    <3>4. step' # "sleep" => lastSnapshotSeq' <= upTo' /\ upTo' <= accepted'
      BY <2>1, <2>3, <2>5 DEF CacheInv
    <3>5. events' = AfterSeq(rows, lastSnapshotSeq)'
      BY <2>1, <2>8
    <3> QED
      BY <2>1, <3>1, <3>2, <3>3, <3>4, <3>5, Zenon DEF CacheInv
  <2> QED
    BY <2>9, <2>10
<1>4. CASE SnapshotBegin
  BY <1>4 DEF SnapshotBegin, RowsInv, CacheInv, Covers, BoardInv, TypeOK, boardVars, dbVars
<1>12. CASE SnapshotRender /\ step' = "sleep"
  BY <1>12 DEF SnapshotRender, RowsInv, CacheInv, Covers, boardVars, dbVars
<1>5. CASE SnapshotRender /\ step' # "sleep"
  <2>1. Covers(upTo, png')
    BY <1>5, PaintCovers DEF SnapshotRender, BoardInv, TypeOK
  <2> QED
    BY <1>5, <2>1 DEF SnapshotRender, RowsInv, CacheInv, Covers, boardVars, dbVars
<1>6. CASE SnapshotSave
  BY <1>6 DEF SnapshotSave, RowsInv, CacheInv, Covers, boardVars
<1>7. CASE SnapshotPrune
  <2>1. AfterSeq(events, upTo) = AfterSeq(rows, upTo)
    <3>1. lastSnapshotSeq <= upTo /\ events = AfterSeq(rows, lastSnapshotSeq)
      BY <1>7 DEF SnapshotPrune, CacheInv, BoardInv
    <3>2. lastSnapshotSeq \in Nat /\ upTo \in Nat /\ \A e \in rows : e.seq \in Nat
      BY DEF BoardInv, TypeOK, Event
    <3> QED
      BY <3>1, <3>2 DEF AfterSeq
  <2> QED
    BY <1>7, <2>1 DEF SnapshotPrune, RowsInv, CacheInv, Covers, BoardInv, dbVars
<1>8. ASSUME NEW w \in late, LateSave(w) PROVE RowsInv' /\ CacheInv'
  BY <1>8 DEF LateSave, RowsInv, CacheInv, Covers, boardVars
<1>9. CASE SyncBegin \/ ExportBegin
  BY <1>9 DEF SyncBegin, ExportBegin, Begin, RowsInv, CacheInv, Covers, boardVars, threadVars, dbVars
<1>10. CASE SyncEnd \/ ExportEnd \/ ExportFails
  BY <1>10 DEF SyncEnd, ExportEnd, ExportFails, Deliver, RowsInv, CacheInv, Covers, boardVars, threadVars, dbVars
<1>11. CASE UNCHANGED vars
  BY <1>11 DEF vars, boardVars, threadVars, dbVars, RowsInv, CacheInv, Covers
<1>13. /\ ~OpenElsewhere
       /\ \A target \in 0..away.seq : ~AddElsewhere(target)
       /\ \A n \in Seqs(away.events) : ~SaveElsewhere(n)
  <2>1. ~OpenElsewhere
    BY DEF OpenElsewhere
  <2>2. ASSUME NEW target \in 0..away.seq, AddElsewhere(target) PROVE FALSE
    <3>1. split /\ split' = split
      BY <2>2 DEF AddElsewhere
    <3> QED
      BY <3>1
  <2>3. ASSUME NEW n \in Seqs(away.events), SaveElsewhere(n) PROVE FALSE
    <3>1. split /\ split' = split
      BY <2>3 DEF SaveElsewhere
    <3> QED
      BY <3>1
  <2> QED
    BY <2>1, <2>2, <2>3
<1> QED
  BY <1>1, <1>2, <1>3, <1>4, <1>5, <1>6, <1>7, <1>8, <1>9, <1>10, <1>11, <1>12, <1>13 DEF Next

\* Once a second server has had the room open, it has.
LEMMA SplitLasts == [Next]_vars /\ ~split' => ~split
BY DEF Next, OpenRoom, CloseRoom, AddEvent, SnapshotBegin, SnapshotRender, SnapshotSave,
       SnapshotPrune, LateSave, OpenElsewhere, AddElsewhere, SaveElsewhere, SyncBegin, SyncEnd,
       ExportBegin, ExportEnd, ExportFails, Begin, Deliver, awayVars, vars

\* Both are invariants of a board whose database does not fail, until a second
\* server opens the room.
LEMMA RowsInvariant ==
    ASSUME ~DbFails PROVE Spec => [](BoardInv /\ (split \/ (RowsInv /\ CacheInv)))
<1>1. Init => RowsInv /\ CacheInv
  BY DEF Init, RowsInv, CacheInv, Covers, Untargeted, Drawings, Seqs
<1>2. BoardInv /\ (split \/ (RowsInv /\ CacheInv)) /\ [Next]_vars
          => (split \/ (RowsInv /\ CacheInv))'
  BY RowsStep, SplitLasts
<1> QED
  BY <1>1, <1>2, BoardInvariant, PTL DEF Spec

\* With a database that does not fail and no second server, a board loaded at
\* any time shows every stored drawing nobody tried to undo, also after threads
\* of earlier boards have overwritten the snapshot with an older one.
THEOREM AlwaysRecoverable == ASSUME ~DbFails PROVE Spec => []Recoverable
<1>1. split \/ RowsInv => Recoverable
  BY DEF RowsInv, Covers, Recoverable
<1> QED
  BY <1>1, RowsInvariant, PTL

\* ... and sequence numbers are given out without gap or repetition over all
\* the lives of the room.
THEOREM SeqsStayDense == ASSUME ~DbFails PROVE Spec => []SeqsAreDense
<1>1. BoardInv /\ (split \/ (RowsInv /\ CacheInv)) => SeqsAreDense
  BY DEF BoardInv, TypeOK, RowsInv, CacheInv, SeqsAreDense, Seqs, AfterSeq
<1> QED
  BY <1>1, RowsInvariant, PTL

-----------------------------------------------------------------------------
\* Numbers and uids grow, and an undo aims at what came before it.
Ordered == \A e \in events \cup rows : e.uid <= accepted /\ e.target < e.seq

\* Every step keeps that order, also when rows are loaded that were inserted
\* before a failed load restarted the count.
LEMMA OrderKept == ASSUME TypeOK, Ordered, [Next]_vars PROVE Ordered'
<1>1. CASE OpenRoom
  <2>1. events' \subseteq rows /\ UNCHANGED <<rows, accepted>>
    BY <1>1 DEF OpenRoom, Loads, Loaded, AfterSeq, dbVars
  <2> QED
    BY <2>1 DEF Ordered
<1>2. CASE CloseRoom
  <2>1. events' = {} /\ UNCHANGED <<rows, accepted>>
    BY <1>2 DEF CloseRoom, dbVars
  <2> QED
    BY <2>1 DEF Ordered
<1>3. ASSUME NEW target \in 0 .. lastSeq, NEW id \in Ids \cup {NoId}, AddEvent(target, id) PROVE Ordered'
  <2> DEFINE e == [uid |-> accepted + 1, seq |-> lastSeq + 1, target |-> target]
  <2>1. /\ events' = events \cup {e} /\ rows' \subseteq rows \cup {e} /\ accepted' = accepted + 1
        /\ lastSeq' = lastSeq + 1
    BY <1>3 DEF AddEvent
  <2>2. e.uid = accepted + 1 /\ e.seq = lastSeq + 1 /\ e.target = target /\ target < lastSeq + 1
    BY DEF TypeOK
  <2>3. \A f \in events \cup rows : f \in Event
    BY DEF TypeOK
  <2>4. accepted \in Nat /\ lastSeq \in Nat /\ \A f \in events \cup rows : f.uid \in Nat /\ f.seq \in Nat
    BY <2>3 DEF TypeOK, Event
  <2> HIDE DEF e
  <2> QED
    BY <2>1, <2>2, <2>4 DEF Ordered
<1>4. CASE \/ SnapshotBegin \/ SnapshotRender \/ SnapshotSave \/ SnapshotPrune
           \/ \E w \in late : LateSave(w)
           \/ OpenElsewhere
           \/ SyncBegin \/ SyncEnd \/ ExportBegin \/ ExportEnd \/ ExportFails
           \/ \E n \in Seqs(away.events) : SaveElsewhere(n)
           \/ UNCHANGED vars
  <2>1. events' \subseteq events /\ UNCHANGED <<rows, accepted, lastSeq>>
    BY <1>4 DEF SnapshotBegin, SnapshotRender, SnapshotSave, SnapshotPrune, LateSave, SyncBegin, SyncEnd,
                ExportBegin, ExportEnd, ExportFails, OpenElsewhere, SaveElsewhere, Begin, Deliver, vars, boardVars, dbVars, AfterSeq
  <2> QED
    BY <2>1 DEF Ordered
<1>5. ASSUME NEW target \in 0..away.seq, AddElsewhere(target) PROVE Ordered'
  <2> DEFINE e == [uid |-> accepted + 1, seq |-> away.seq + 1, target |-> target]
  <2>1. events' = events /\ rows' = rows \cup {e} /\ accepted' = accepted + 1
    BY <1>5 DEF AddElsewhere
  <2>2. away.seq \in Nat /\ accepted \in Nat /\ \A f \in events \cup rows : f.uid \in Nat
    BY DEF TypeOK, Board, Event
  <2>3. e.uid = accepted + 1 /\ e.target < e.seq
    BY <2>2
  <2> HIDE DEF e
  <2> QED
    BY <2>1, <2>2, <2>3 DEF Ordered
<1> QED
  BY <1>1, <1>2, <1>3, <1>4, <1>5 DEF Next

\* UndoIsErasure: undo and redo of any depth, for events in any number.
THEOREM UndoErasesDrawing == Spec => UndoIsErasure
<1> DEFINE Erases == \A e \in events' :
                        e.uid = accepted' /\ accepted' # accepted =>
                            Visible' = IF e.target = 0 THEN Visible \cup {e.uid}
                                       ELSE Paint(snapshot, {f \in events : f.seq # e.target})
           Inv == TypeOK /\ CachedBelow /\ Ordered
<1>1. Init => Inv
  BY BoardInit DEF Init, Ordered
<1>2. Inv /\ [Next]_vars => Inv'
  BY BoardTypeStep, OrderKept
<1>3. Inv /\ [Next]_vars => [Erases]_vars
  <2> SUFFICES ASSUME Inv, Next, NEW e \in events', e.uid = accepted', accepted' # accepted
               PROVE Visible' = IF e.target = 0 THEN Visible \cup {e.uid}
                                ELSE Paint(snapshot, {f \in events : f.seq # e.target})
    OBVIOUS
  <2>8. ASSUME NEW target \in 0..away.seq, AddElsewhere(target) PROVE FALSE
    BY <2>8 DEF AddElsewhere, Ordered, TypeOK, Event
  <2>1. PICK target \in 0 .. lastSeq, id \in Ids \cup {NoId} : AddEvent(target, id)
    BY <2>8 DEF Next, OpenRoom, CloseRoom, SnapshotBegin, SnapshotRender, SnapshotSave, SnapshotPrune, LateSave,
           OpenElsewhere, SaveElsewhere, SyncBegin, SyncEnd, ExportBegin, ExportEnd, ExportFails, Begin, Deliver, boardVars
  <2> DEFINE new == [uid |-> accepted + 1, seq |-> lastSeq + 1, target |-> target]
  <2>2. events' = events \cup {new} /\ accepted' = accepted + 1 /\ snapshot' = snapshot
    BY <2>1 DEF AddEvent
  <2>3. /\ new \in Event /\ new.uid = accepted + 1 /\ new.seq = lastSeq + 1 /\ new.target = target
        /\ accepted \in Nat /\ lastSeq \in Nat /\ events \in SUBSET Event
        /\ \A f \in events : f.uid \in Nat /\ f.seq \in Nat /\ f.target \in Nat
    BY DEF TypeOK, Event
  <2> HIDE DEF new
  <2>4. e = new
    BY <2>2, <2>3 DEF Ordered
  <2>5. /\ \A f \in events : f.seq < new.seq /\ f.target < new.seq /\ f.target # new.seq
        /\ \A f \in events \cup {new} : f.seq \in Nat
    BY <2>3 DEF Ordered, CachedBelow
  <2>6. CASE target = 0
    <3>1. \A f \in events \cup {new} : f.seq <= new.seq
      BY <2>3, <2>5
    <3>2. Active(events \cup {new}) = Active(events) \cup {new}
      BY <2>3, <2>5, <2>6, <3>1, DrawingJoins
    <3> QED
      BY <2>2, <2>3, <2>4, <2>6, <3>2 DEF Visible, Paint, Uids
  <2>7. CASE target # 0
    <3>1. new.target # 0 /\ new.target < new.seq
      BY <2>3, <2>7
    <3>2. Active(events \cup {new}) = Active({f \in events : f.seq # new.target})
      BY <2>5, <3>1, UndoErases
    <3> QED
      BY <2>2, <2>3, <2>4, <2>7, <3>2 DEF Visible, Paint
  <2> QED
    BY <2>6, <2>7
<1> HIDE DEF Inv
<1> QED
  BY <1>1, <1>2, <1>3, PTL DEF Spec, UndoIsErasure
=============================================================================
