-------------------------- MODULE BoardViewProofs ---------------------------
(***************************************************************************)
(* Proofs about BoardView, for any number of users, requests and joins.    *)
(*                                                                         *)
(* TypeOK: what is stored and sent fits the numbers given so far           *)
(* (Fit), a request on its way has not been counted as an event yet        *)
(* (Counted), and what is on the stacks of a user has lower numbers than   *)
(* the user's broadcasts that are still to come (OwnOrder).                *)
(*                                                                         *)
(* RedoAimsAtLastUndo: a drawing on the undone stack has the number of its *)
(* last undo, or that number is on its way (Redoable).                     *)
(*                                                                         *)
(* InOrderView: what a user was not sent yet is owed to the user by some   *)
(* handler (Numbered), every list that is sent shows the board as of its   *)
(* number (ListShows), and so does the canvas, as it will be when the      *)
(* inbox is empty, unless a handler owes the user an older broadcast       *)
(* View).  The canvas of a window that was cleared is out of account until *)
(* a sync is in the inbox: from there on what was on it before is no       *)
(* matter (SeenSynced).                                                    *)
(***************************************************************************)
EXTENDS BoardView, DrawEventsProofs, FiniteSetTheorems

-----------------------------------------------------------------------------
(* The numbers in the state *)

Event == [seq : Nat, target : Nat, art : Nat, by : Users, id : Nat]

OnePerSeq(I) == \A x, y \in I : x.seq = y.seq => x = y

\* A packet the server makes when n is the last number
Fits(m, n) ==
    /\ m \in Packet /\ m.seq <= n /\ m.target <= n
    /\ m.kind # "sync" => 1 <= m.seq
    /\ m.kind = "draw" => m.target = 0
    /\ m.kind = "undo" => m.target # 0
    /\ OnePerSeq(m.list)

ServerFit ==
    /\ lastSeq \in Nat
    /\ events \subseteq Event /\ IsFiniteSet(events) /\ OnePerSeq(events)
    /\ \A e \in events : 1 <= e.seq /\ e.seq <= lastSeq /\ e.target < e.seq
    /\ picture \subseteq Nat
    /\ ids # {} => 1 <= lastSeq

HandlerFit(u) ==
    /\ step[u] # "read" => Fits(msg[u], lastSeq) /\ msg[u].by = u
    /\ todo[u] # {} <=> step[u] = "send"
    /\ step[u] = "list" => msg[u].kind = "undo"
    /\ step[u] \in {"sync", "sync_list"} => msg[u].kind = "sync"
    /\ step[u] = "send" /\ msg[u].kind = "sync" => todo[u] = {u}
HandlersFit ==
    /\ step \in [Users -> {"read", "list", "send", "sync", "sync_list"}]
    /\ msg \in [Users -> Packet \cup {<<>>}]
    /\ todo \in [Users -> SUBSET Users]
    /\ \A u \in Users : HandlerFit(u)

InboxFit(b) == \A i \in 1 .. Len(b) : Fits(b[i], lastSeq)
InboxesFit ==
    /\ inbox \in [Users -> Seq(Packet)] /\ newest \in [Users -> Nat]
    /\ \A u \in Users : InboxFit(inbox[u]) /\ newest[u] <= lastSeq

CanvasFit ==
    /\ items \in [Users -> SUBSET Item] /\ backdrop \in [Users -> SUBSET Nat]
    /\ \A u \in Users : OnePerSeq(items[u])

ClicksFit ==
    /\ requests \in Nat /\ requests <= MaxRequests /\ counter \in [Users -> Nat]
    /\ out \in [Users -> Seq(Request)]
    /\ \A u \in Users : \A i \in 1 .. Len(out[u]) : out[u][i].target <= lastSeq

StacksFit ==
    /\ drawn \in [Users -> Seq(Nat)] /\ undone \in [Users -> Seq(Nat)]
    /\ redo \in [Users -> SUBSET (Nat \X Nat)]
    /\ \A u \in Users :
          /\ \A i \in 1 .. Len(drawn[u]) : 1 <= drawn[u][i] /\ drawn[u][i] <= lastSeq
          /\ \A i \in 1 .. Len(undone[u]) : 1 <= undone[u][i] /\ undone[u][i] <= lastSeq
          /\ \A p \in redo[u] : p[1] <= lastSeq /\ 1 <= p[2] /\ p[2] <= lastSeq
          /\ \A p, q \in redo[u] : p[1] = q[1] => p = q

Fit == ServerFit /\ HandlersFit /\ InboxesFit /\ CanvasFit /\ ClicksFit /\ StacksFit

\* A window at another room has nothing of this one, and has missed something.
WindowFit ==
    /\ here \subseteq Users /\ blind \subseteq Users
    /\ \A u \in Users : u \in here \/ (u \in blind /\ undone[u] = <<>>)

-----------------------------------------------------------------------------
(* Lemmas about sequences and packets *)

\* Appending an element
LEMMA AppendSeq ==
    ASSUME NEW S, NEW s \in Seq(S), NEW x \in S
    PROVE  /\ Append(s, x) \in Seq(S) /\ Len(Append(s, x)) = Len(s) + 1
           /\ Append(s, x)[Len(s) + 1] = x
           /\ \A i \in 1 .. Len(s) : Append(s, x)[i] = s[i]
           /\ \A i \in 1 .. Len(s) + 1 : Append(s, x)[i] = IF i = Len(s) + 1 THEN x ELSE s[i]
OBVIOUS

\* The rest after the head
LEMMA TailSeq ==
    ASSUME NEW S, NEW s \in Seq(S), s # <<>>
    PROVE  /\ Tail(s) \in Seq(S) /\ Len(s) \in Nat \ {0} /\ Len(Tail(s)) = Len(s) - 1
           /\ s[1] \in S
           /\ \A i \in 1 .. Len(Tail(s)) : Tail(s)[i] = s[i + 1] /\ i + 1 \in 1 .. Len(s)
OBVIOUS

\* A prefix
LEMMA PrefixSeq ==
    ASSUME NEW S, NEW s \in Seq(S), NEW n \in 0 .. Len(s)
    PROVE  /\ SubSeq(s, 1, n) \in Seq(S) /\ Len(SubSeq(s, 1, n)) = n
           /\ \A i \in 1 .. n : SubSeq(s, 1, n)[i] = s[i] /\ i \in 1 .. Len(s)
OBVIOUS

\* All but the last
LEMMA RestSeq ==
    ASSUME NEW S, NEW s \in Seq(S), s # <<>>
    PROVE  /\ Rest(s) \in Seq(S) /\ Len(Rest(s)) = Len(s) - 1 /\ Len(s) \in Nat \ {0}
           /\ Len(s) \in 1 .. Len(s) /\ s[Len(s)] \in S
           /\ \A i \in 1 .. Len(Rest(s)) : Rest(s)[i] = s[i] /\ i \in 1 .. Len(s) /\ i # Len(s)
<1>1. Len(s) \in Nat \ {0} /\ Len(s) - 1 \in 0 .. Len(s)
  OBVIOUS
<1>2. /\ Rest(s) \in Seq(S) /\ Len(Rest(s)) = Len(s) - 1
      /\ \A i \in 1 .. Len(s) - 1 : Rest(s)[i] = s[i]
  BY <1>1, PrefixSeq DEF Rest
<1> QED
  BY <1>1, <1>2

\* A packet that fits goes on fitting.
LEMMA FitsLater ==
    ASSUME NEW m, NEW n \in Nat, NEW k \in Nat, n <= k, Fits(m, n)
    PROVE  Fits(m, k)
BY DEF Fits, Packet

\* The items of events that fit are items with one number each.
LEMMA ItemsFit ==
    ASSUME ServerFit
    PROVE  /\ Active(events) \subseteq events
           /\ ItemsOf(Active(events)) \in SUBSET Item /\ OnePerSeq(ItemsOf(Active(events)))
BY DEF ServerFit, Event, ItemsOf, Active, Drawings, Item, OnePerSeq

-----------------------------------------------------------------------------
(* What is stored fits the numbers. *)

LEMMA FitInit == Init => Fit
BY BoardAssumption, FS_EmptySet
   DEF Init, Fit, ServerFit, HandlersFit, HandlerFit, InboxesFit, InboxFit, CanvasFit, ClicksFit,
       StacksFit, OnePerSeq

\* What nobody touches goes on fitting when the last number grows.
LEMMA RestFits ==
    ASSUME Fit, lastSeq' \in Nat, lastSeq <= lastSeq'
    PROVE  /\ UNCHANGED server => ServerFit'
           /\ UNCHANGED handler => HandlersFit'
           /\ UNCHANGED <<inbox, newest>> => InboxesFit'
           /\ UNCHANGED canvas => CanvasFit'
           /\ UNCHANGED input => ClicksFit'
           /\ UNCHANGED stacks => StacksFit'
<1>1. UNCHANGED server => ServerFit'
  BY DEF Fit, ServerFit, server
<1>2. UNCHANGED handler => HandlersFit'
  BY FitsLater DEF Fit, ServerFit, HandlersFit, HandlerFit, handler
<1>3. UNCHANGED <<inbox, newest>> => InboxesFit'
  <2> SUFFICES ASSUME UNCHANGED <<inbox, newest>> PROVE InboxesFit'
    OBVIOUS
  <2>1. ASSUME NEW u \in Users PROVE InboxFit(inbox[u])' /\ newest'[u] <= lastSeq'
    BY FitsLater DEF Fit, ServerFit, InboxesFit, InboxFit
  <2> QED
    BY <2>1 DEF Fit, InboxesFit
<1>4. UNCHANGED canvas => CanvasFit'
  BY DEF Fit, CanvasFit, canvas
<1>5. UNCHANGED input => ClicksFit'
  <2> SUFFICES ASSUME UNCHANGED input PROVE ClicksFit'
    OBVIOUS
  <2>1. ASSUME NEW u \in Users, NEW i \in 1 .. Len(out[u]) PROVE out[u][i].target <= lastSeq'
    <3>1. out[u] \in Seq(Request) /\ out[u][i].target <= lastSeq /\ lastSeq \in Nat
      BY DEF Fit, ServerFit, ClicksFit
    <3>2. out[u][i] \in Request
      BY <3>1
    <3> QED
      BY <3>1, <3>2 DEF Request
  <2> QED
    BY <2>1 DEF Fit, ClicksFit, input
<1>6. UNCHANGED stacks => StacksFit'
  BY DEF Fit, ServerFit, StacksFit, stacks
<1> QED
  BY <1>1, <1>2, <1>3, <1>4, <1>5, <1>6

\* send_draw_event with a number that was given
LEMMA ClicksKept ==
    ASSUME Fit, NEW u \in Users, NEW target \in Nat, target <= lastSeq, SendDrawEvent(u, target),
           lastSeq' = lastSeq
    PROVE  ClicksFit'
<1>1. /\ out \in [Users -> Seq(Request)] /\ counter \in [Users -> Nat] /\ requests \in Nat
      /\ MaxRequests \in Nat /\ lastSeq \in Nat
  BY BoardAssumption DEF Fit, ClicksFit, ServerFit
<1> DEFINE r == [id |-> counter[u] + 1, art |-> requests + 1, target |-> target]
<1>2. r \in Request /\ r.target = target
  BY <1>1 DEF Request
<1> HIDE DEF r
<1>3. /\ out' = [out EXCEPT ![u] = Append(@, r)] /\ counter' = [counter EXCEPT ![u] = @ + 1]
      /\ requests' = requests + 1 /\ requests < MaxRequests
  BY DEF SendDrawEvent, r
<1>4. /\ out[u] \in Seq(Request) /\ Append(out[u], r) \in Seq(Request)
      /\ \A i \in 1 .. Len(Append(out[u], r)) :
            \/ i \in 1 .. Len(out[u]) /\ Append(out[u], r)[i] = out[u][i]
            \/ Append(out[u], r)[i] = r
  BY <1>1, <1>2, AppendSeq
<1>5. ASSUME NEW v \in Users, NEW i \in 1 .. Len(out'[v]) PROVE out'[v][i].target <= lastSeq'
  <2>1. CASE v = u
    <3>1. out'[v] = Append(out[u], r)
      BY <1>1, <1>3, <2>1
    <3> QED
      BY <1>2, <1>4, <3>1 DEF Fit, ClicksFit
  <2>2. CASE v # u
    BY <1>1, <1>3, <2>2 DEF Fit, ClicksFit
  <2> QED
    BY <2>1, <2>2
<1> QED
  BY <1>1, <1>3, <1>4, <1>5 DEF ClicksFit

\* The buttons
LEMMA FitWhenClicked ==
    ASSUME Fit, NEW u \in Users, ShapeCompleted(u) \/ OnUndoClicked(u) \/ OnRedoClicked(u)
    PROVE  Fit'
<1>1. /\ UNCHANGED <<server, handler, inbox, newest, canvas>> /\ lastSeq' = lastSeq /\ lastSeq \in Nat
  BY DEF ShapeCompleted, OnUndoClicked, OnRedoClicked, server, history, Fit, ServerFit
<1>2. /\ ServerFit' /\ HandlersFit' /\ InboxesFit' /\ CanvasFit'
      /\ (UNCHANGED input => ClicksFit')
  BY <1>1, RestFits
<1>3. /\ drawn \in [Users -> Seq(Nat)] /\ undone \in [Users -> Seq(Nat)]
      /\ redo \in [Users -> SUBSET (Nat \X Nat)]
  BY DEF Fit, StacksFit
<1>4. CASE ShapeCompleted(u)
  <2>1. ClicksFit'
    BY <1>1, <1>4, ClicksKept DEF ShapeCompleted
  <2>2. drawn' = drawn /\ undone' = [undone EXCEPT ![u] = <<>>] /\ redo' = [redo EXCEPT ![u] = {}]
    BY <1>4 DEF ShapeCompleted
  <2>3. StacksFit'
    BY <1>1, <1>3, <2>2 DEF Fit, StacksFit
  <2> QED
    BY <1>2, <2>1, <2>3 DEF Fit
<1>5. CASE OnUndoClicked(u)
  <2> DEFINE target == drawn[u][Len(drawn[u])]
  <2>1. /\ drawn[u] # <<>> /\ SendDrawEvent(u, target)
        /\ drawn' = [drawn EXCEPT ![u] = Rest(@)] /\ undone' = [undone EXCEPT ![u] = Append(@, target)]
        /\ redo' = redo
    BY <1>5 DEF OnUndoClicked
  <2>2. /\ Rest(drawn[u]) \in Seq(Nat) /\ target \in Nat /\ Len(drawn[u]) \in 1 .. Len(drawn[u])
        /\ \A i \in 1 .. Len(Rest(drawn[u])) : Rest(drawn[u])[i] = drawn[u][i] /\ i \in 1 .. Len(drawn[u])
    BY <1>3, <2>1, RestSeq
  <2>3. 1 <= target /\ target <= lastSeq
    BY <2>2 DEF Fit, StacksFit
  <2> HIDE DEF target
  <2>4. ClicksFit'
    BY <1>1, <2>1, <2>2, <2>3, ClicksKept
  <2>5. /\ Append(undone[u], target) \in Seq(Nat)
        /\ \A i \in 1 .. Len(Append(undone[u], target)) :
              \/ i \in 1 .. Len(undone[u]) /\ Append(undone[u], target)[i] = undone[u][i]
              \/ Append(undone[u], target)[i] = target
    BY <1>3, <2>2, AppendSeq
  <2>6. drawn' \in [Users -> Seq(Nat)] /\ undone' \in [Users -> Seq(Nat)]
    BY <1>3, <2>1, <2>2, <2>5
  <2>7. ASSUME NEW v \in Users
        PROVE  /\ \A i \in 1 .. Len(drawn'[v]) : 1 <= drawn'[v][i] /\ drawn'[v][i] <= lastSeq
               /\ \A i \in 1 .. Len(undone'[v]) : 1 <= undone'[v][i] /\ undone'[v][i] <= lastSeq
    <3>1. CASE v = u
      <4>1. drawn'[v] = Rest(drawn[u]) /\ undone'[v] = Append(undone[u], target)
        BY <1>3, <2>1, <3>1
      <4>2. \A i \in 1 .. Len(drawn[u]) : 1 <= drawn[u][i] /\ drawn[u][i] <= lastSeq
        BY DEF Fit, StacksFit
      <4>3. \A i \in 1 .. Len(undone[u]) : 1 <= undone[u][i] /\ undone[u][i] <= lastSeq
        BY DEF Fit, StacksFit
      <4> QED
        BY <2>2, <2>3, <2>5, <4>1, <4>2, <4>3
    <3>2. CASE v # u
      BY <1>3, <2>1, <3>2 DEF Fit, StacksFit
    <3> QED
      BY <3>1, <3>2
  <2>8. StacksFit'
    BY <1>1, <1>3, <2>1, <2>6, <2>7 DEF Fit, StacksFit
  <2> QED
    BY <1>2, <2>4, <2>8 DEF Fit
<1>6. CASE OnRedoClicked(u)
  <2> DEFINE target == undone[u][Len(undone[u])]
             undo == {p \in redo[u] : p[1] = target}
  <2>1. /\ undone[u] # <<>> /\ undone' = [undone EXCEPT ![u] = Rest(@)] /\ redo' = redo
        /\ \/ UNCHANGED <<drawn, out, counter, requests>>
           \/ \E p \in undo : /\ SendDrawEvent(u, p[2])
                              /\ drawn' = [drawn EXCEPT ![u] = Append(@, target)]
    BY <1>6 DEF OnRedoClicked
  <2>2. /\ Rest(undone[u]) \in Seq(Nat) /\ target \in Nat /\ Len(undone[u]) \in 1 .. Len(undone[u])
        /\ \A i \in 1 .. Len(Rest(undone[u])) :
              Rest(undone[u])[i] = undone[u][i] /\ i \in 1 .. Len(undone[u])
    BY <1>3, <2>1, RestSeq
  <2>3. 1 <= target /\ target <= lastSeq
    BY <2>2 DEF Fit, StacksFit
  <2>4. \A p \in undo : p[2] \in Nat /\ p[2] <= lastSeq
    BY <1>3 DEF Fit, StacksFit
  <2> HIDE DEF target, undo
  <2>5. ClicksFit'
    BY <1>1, <1>2, <2>1, <2>4, ClicksKept DEF input
  <2>6. /\ Append(drawn[u], target) \in Seq(Nat)
        /\ \A i \in 1 .. Len(Append(drawn[u], target)) :
              \/ i \in 1 .. Len(drawn[u]) /\ Append(drawn[u], target)[i] = drawn[u][i]
              \/ Append(drawn[u], target)[i] = target
    BY <1>3, <2>2, AppendSeq
  <2>7. /\ undone' \in [Users -> Seq(Nat)]
        /\ drawn' = drawn \/ drawn' = [drawn EXCEPT ![u] = Append(@, target)]
        /\ drawn' \in [Users -> Seq(Nat)]
    BY <1>3, <2>1, <2>2, <2>6
  <2>8. ASSUME NEW v \in Users
        PROVE  /\ \A i \in 1 .. Len(drawn'[v]) : 1 <= drawn'[v][i] /\ drawn'[v][i] <= lastSeq
               /\ \A i \in 1 .. Len(undone'[v]) : 1 <= undone'[v][i] /\ undone'[v][i] <= lastSeq
    <3>1. /\ \A i \in 1 .. Len(drawn[v]) : 1 <= drawn[v][i] /\ drawn[v][i] <= lastSeq
          /\ \A i \in 1 .. Len(undone[v]) : 1 <= undone[v][i] /\ undone[v][i] <= lastSeq
      BY DEF Fit, StacksFit
    <3>2. CASE v = u
      <4>1. undone'[v] = Rest(undone[u]) /\ (drawn'[v] = drawn[v] \/ drawn'[v] = Append(drawn[u], target))
        BY <1>3, <2>1, <2>7, <3>2
      <4> QED
        BY <2>2, <2>3, <2>6, <3>1, <3>2, <4>1
    <3>3. CASE v # u
      BY <1>3, <2>1, <2>7, <3>1, <3>3
    <3> QED
      BY <3>2, <3>3
  <2>9. StacksFit'
    BY <1>1, <1>3, <2>1, <2>7, <2>8 DEF Fit, StacksFit
  <2> QED
    BY <1>2, <2>5, <2>9 DEF Fit
<1> QED
  BY <1>4, <1>5, <1>6

\* A handler moves on: the others are where they were.
LEMMA HandlersKept ==
    ASSUME Fit, lastSeq' \in Nat, lastSeq <= lastSeq', NEW u \in Users,
           NEW s \in {"read", "list", "send", "sync", "sync_list"},
           NEW m \in Packet \cup {<<>>}, NEW T \in SUBSET Users,
           step' = [step EXCEPT ![u] = s], msg' = [msg EXCEPT ![u] = m],
           todo' = [todo EXCEPT ![u] = T],
           s # "read" => Fits(m, lastSeq') /\ m.by = u,
           T # {} <=> s = "send",
           s = "list" => m.kind = "undo",
           s \in {"sync", "sync_list"} => m.kind = "sync",
           s = "send" /\ m.kind = "sync" => T = {u}
    PROVE  HandlersFit'
<1>1. /\ step \in [Users -> {"read", "list", "send", "sync", "sync_list"}]
      /\ msg \in [Users -> Packet \cup {<<>>}] /\ todo \in [Users -> SUBSET Users]
      /\ \A v \in Users : HandlerFit(v)
      /\ lastSeq \in Nat
  BY DEF Fit, HandlersFit, ServerFit
<1>2. ASSUME NEW v \in Users PROVE HandlerFit(v)'
  <2>1. CASE v = u
    <3>1. step'[v] = s /\ msg'[v] = m /\ todo'[v] = T
      BY <1>1, <2>1
    <3> QED
      BY <2>1, <3>1 DEF HandlerFit
  <2>2. CASE v # u
    <3>1. step'[v] = step[v] /\ msg'[v] = msg[v] /\ todo'[v] = todo[v]
      BY <1>1, <2>2
    <3>2. step[v] # "read" => Fits(msg[v], lastSeq')
      BY <1>1, FitsLater DEF HandlerFit
    <3>3. HandlerFit(v)
      BY <1>1
    <3> QED
      BY <3>1, <3>2, <3>3 DEF HandlerFit
  <2> QED
    BY <2>1, <2>2
<1> QED
  BY <1>1, <1>2 DEF HandlersFit

\* What add_event gives a request: the next number, or for an id that came
\* before one that was given.
EventSeq(u, r) ==
    IF <<u, r.id>> \notin ids THEN lastSeq + 1
    ELSE IF {e \in events : e.by = u /\ e.id = r.id} # {}
         THEN CHOOSE n \in Seqs({e \in events : e.by = u /\ e.id = r.id}) : TRUE ELSE lastSeq
NewEvent(u, r) ==
    [seq |-> lastSeq + 1, target |-> r.target, art |-> r.art, by |-> u, id |-> r.id]
NewPacket(u, r) ==
    [kind |-> IF r.target = 0 THEN "draw" ELSE "undo", by |-> u, seq |-> EventSeq(u, r),
     target |-> r.target, art |-> r.art, list |-> {}, backdrop |-> {}]

\* add_event in these words
LEMMA Adds ==
    ASSUME Fit, NEW u \in Users, AddEvent(u)
    PROVE  /\ step[u] = "read" /\ todo[u] = {} /\ out[u] # <<>> /\ out[u][1] \in Request
           /\ out[u][1].target \in 0 .. lastSeq
           /\ 1 <= EventSeq(u, out[u][1]) /\ EventSeq(u, out[u][1]) <= lastSeq'
           /\ EventSeq(u, out[u][1]) \in Nat
           /\ \/ /\ <<u, out[u][1].id>> \notin ids
                 /\ EventSeq(u, out[u][1]) = lastSeq + 1 /\ lastSeq' = lastSeq + 1
                 /\ events' = events \cup {NewEvent(u, out[u][1])} /\ (reused' <=> reused)
              \/ /\ <<u, out[u][1].id>> \in ids
                 /\ lastSeq' = lastSeq /\ events' = events /\ reused'
           /\ ids' = ids \cup {<<u, out[u][1].id>>}
           /\ msg' = [msg EXCEPT ![u] = NewPacket(u, out[u][1])]
           /\ step' = [step EXCEPT ![u] = IF out[u][1].target = 0 THEN "send" ELSE "list"]
           /\ todo' = [todo EXCEPT ![u] = IF out[u][1].target = 0 THEN Users ELSE {}]
           /\ out' = [out EXCEPT ![u] = Tail(@)]
           /\ lastSeq \in Nat /\ lastSeq' \in Nat /\ lastSeq <= lastSeq'
           /\ UNCHANGED <<picture, inbox, canvas, stacks, counter, requests, moves, newest, outOfOrder>>
<1> DEFINE r == out[u][1]
           twin == {e \in events : e.by = u /\ e.id = r.id}
<1>1. /\ step[u] = "read" /\ out[u] # <<>>
      /\ lastSeq' = IF <<u, r.id>> \in ids THEN lastSeq ELSE EventSeq(u, r)
      /\ events' = IF <<u, r.id>> \in ids THEN events
                   ELSE events \cup {[seq |-> EventSeq(u, r), target |-> r.target, art |-> r.art,
                                      by |-> u, id |-> r.id]}
      /\ ids' = ids \cup {<<u, r.id>>} /\ reused' = (reused \/ <<u, r.id>> \in ids)
      /\ msg' = [msg EXCEPT ![u] = NewPacket(u, r)]
      /\ step' = [step EXCEPT ![u] = IF r.target = 0 THEN "send" ELSE "list"]
      /\ todo' = [todo EXCEPT ![u] = IF r.target = 0 THEN Users ELSE {}]
      /\ out' = [out EXCEPT ![u] = Tail(@)]
      /\ UNCHANGED <<picture, inbox, canvas, stacks, counter, requests, moves, newest, outOfOrder>>
  BY DEF AddEvent, EventSeq, NewPacket
<1>2. /\ lastSeq \in Nat /\ \A e \in events : e.seq \in Nat /\ 1 <= e.seq /\ e.seq <= lastSeq
      /\ ids # {} => 1 <= lastSeq
  BY DEF Fit, ServerFit, Event
<1>3. out[u] \in Seq(Request) /\ \A i \in 1 .. Len(out[u]) : out[u][i].target <= lastSeq
  BY DEF Fit, ClicksFit
<1>4. r \in Request /\ 1 \in 1 .. Len(out[u])
  BY <1>1, <1>3
<1>5. r.target \in 0 .. lastSeq
  BY <1>2, <1>3, <1>4 DEF Request
<1>6. todo[u] = {}
  BY <1>1 DEF Fit, HandlersFit, HandlerFit
<1>7. CASE <<u, r.id>> \notin ids
  <2>1. EventSeq(u, r) = lastSeq + 1
    BY <1>7 DEF EventSeq
  <2>2. events' = events \cup {NewEvent(u, r)}
    BY <1>1, <1>7, <2>1 DEF NewEvent
  <2>3. lastSeq' = lastSeq + 1 /\ (reused' <=> reused)
    BY <1>1, <1>7, <2>1
  <2> QED
    BY <1>1, <1>2, <1>4, <1>5, <1>6, <1>7, <2>1, <2>2, <2>3
<1>8. CASE <<u, r.id>> \in ids
  <2>1. EventSeq(u, r) \in Seqs(twin) \/ EventSeq(u, r) = lastSeq
    BY <1>8 DEF EventSeq, Seqs
  <2>2. EventSeq(u, r) \in Nat /\ 1 <= EventSeq(u, r) /\ EventSeq(u, r) <= lastSeq
    BY <1>2, <1>8, <2>1 DEF Seqs
  <2>3. lastSeq' = lastSeq /\ events' = events /\ reused'
    BY <1>1, <1>8
  <2> QED
    BY <1>1, <1>2, <1>4, <1>5, <1>6, <1>8, <2>2, <2>3
<1> QED
  BY <1>7, <1>8

LEMMA FitWhenAdded == ASSUME Fit, NEW u \in Users, AddEvent(u) PROVE Fit'
<1> DEFINE r == out[u][1]
           m == NewPacket(u, r)
<1>1. /\ step[u] = "read" /\ out[u] # <<>> /\ r \in Request /\ r.target \in 0 .. lastSeq
      /\ 1 <= EventSeq(u, r) /\ EventSeq(u, r) <= lastSeq' /\ EventSeq(u, r) \in Nat
      /\ \/ lastSeq' = lastSeq + 1 /\ events' = events \cup {NewEvent(u, r)}
         \/ lastSeq' = lastSeq /\ events' = events
      /\ ids' = ids \cup {<<u, r.id>>} /\ (<<u, r.id>> \in ids \/ lastSeq' = lastSeq + 1)
      /\ msg' = [msg EXCEPT ![u] = m]
      /\ step' = [step EXCEPT ![u] = IF r.target = 0 THEN "send" ELSE "list"]
      /\ todo' = [todo EXCEPT ![u] = IF r.target = 0 THEN Users ELSE {}]
      /\ out' = [out EXCEPT ![u] = Tail(@)]
      /\ lastSeq \in Nat /\ lastSeq' \in Nat /\ lastSeq <= lastSeq'
      /\ UNCHANGED <<picture, inbox, canvas, stacks, counter, requests, newest>>
  BY Adds
<1>2. InboxesFit' /\ CanvasFit' /\ StacksFit'
  BY <1>1, RestFits
<1>3. m \in Packet /\ Fits(m, lastSeq') /\ m.by = u
      /\ m.kind = IF r.target = 0 THEN "draw" ELSE "undo"
  BY <1>1 DEF NewPacket, Packet, Request, Fits, OnePerSeq
<1> HIDE DEF m
<1>4. HandlersFit'
  <2> DEFINE s == IF r.target = 0 THEN "send" ELSE "list"
             T == IF r.target = 0 THEN Users ELSE {}
  <2>1. /\ s \in {"read", "list", "send", "sync", "sync_list"} /\ T \in SUBSET Users
        /\ step' = [step EXCEPT ![u] = s] /\ todo' = [todo EXCEPT ![u] = T]
        /\ (T # {} <=> s = "send") /\ (s = "list" => m.kind = "undo")
        /\ s \notin {"sync", "sync_list"} /\ (s = "send" => m.kind = "draw")
    BY <1>1, <1>3
  <2> HIDE DEF s, T
  <2> QED
    BY <1>1, <1>3, <2>1, HandlersKept
<1>5. ServerFit'
  <2>1. CASE lastSeq' = lastSeq + 1 /\ events' = events \cup {NewEvent(u, r)}
    <3> DEFINE e == NewEvent(u, r)
    <3>1. e \in Event /\ e.seq = lastSeq' /\ e.target < e.seq /\ 1 <= e.seq
      BY <1>1, <2>1 DEF NewEvent, Event, Request
    <3> HIDE DEF e
    <3>2. events' = events \cup {e} /\ IsFiniteSet(events) /\ events \subseteq Event
      BY <2>1 DEF e, Fit, ServerFit
    <3>3. IsFiniteSet(events') /\ events' \subseteq Event
      BY <3>1, <3>2, FS_AddElement
    <3>4. \A f \in events : f.seq \in Nat /\ 1 <= f.seq /\ f.seq <= lastSeq /\ f.target < f.seq
      BY DEF Fit, ServerFit, Event
    <3>5. OnePerSeq(events')
      BY <1>1, <2>1, <3>1, <3>2, <3>4 DEF OnePerSeq, Fit, ServerFit
    <3>6. \A f \in events' : 1 <= f.seq /\ f.seq <= lastSeq' /\ f.target < f.seq
      BY <1>1, <2>1, <3>1, <3>2, <3>4 DEF Event
    <3>7. 1 <= lastSeq' /\ picture' \subseteq Nat
      BY <1>1, <2>1 DEF Fit, ServerFit
    <3> QED
      BY <1>1, <3>3, <3>5, <3>6, <3>7 DEF ServerFit
  <2>2. CASE lastSeq' = lastSeq /\ events' = events
    BY <1>1, <2>2 DEF Fit, ServerFit
  <2> QED
    BY <1>1, <2>1, <2>2
<1>6. ClicksFit'
  <2>1. /\ out[u] \in Seq(Request) /\ out \in [Users -> Seq(Request)]
        /\ \A v \in Users : \A i \in 1 .. Len(out[v]) : out[v][i].target <= lastSeq
    BY DEF Fit, ClicksFit
  <2>2. /\ Tail(out[u]) \in Seq(Request)
        /\ \A i \in 1 .. Len(Tail(out[u])) : Tail(out[u])[i] = out[u][i + 1] /\ i + 1 \in 1 .. Len(out[u])
    BY <1>1, <2>1, TailSeq
  <2>3. ASSUME NEW v \in Users, NEW i \in 1 .. Len(out'[v]) PROVE out'[v][i].target <= lastSeq'
    <3>1. out'[v] \in Seq(Request) /\ \E w \in Users : \E k \in 1 .. Len(out[w]) : out'[v][i] = out[w][k]
      BY <1>1, <2>1, <2>2
    <3>2. \A w \in Users : \A k \in 1 .. Len(out[w]) : out[w][k] \in Request
      BY <2>1
    <3>3. out'[v][i].target <= lastSeq /\ out'[v][i].target \in Nat
      BY <2>1, <3>1, <3>2 DEF Request
    <3> QED
      BY <1>1, <3>3
  <2>4. out' \in [Users -> Seq(Request)]
    BY <1>1, <2>1, <2>2
  <2> QED
    BY <1>1, <2>3, <2>4 DEF Fit, ClicksFit
<1> QED
  BY <1>2, <1>4, <1>5, <1>6 DEF Fit

\* The handlers list the events and read the snapshot.
LEMMA FitWhenRead ==
    ASSUME Fit, NEW u \in Users, ListActive(u) \/ SyncSnapshot(u) \/ SyncEvents(u)
    PROVE  Fit'
<1>1. UNCHANGED <<server, inbox, newest, canvas, stacks, input>> /\ lastSeq' = lastSeq /\ lastSeq \in Nat
  BY DEF ListActive, SyncSnapshot, SyncEvents, server, history, Fit, ServerFit
<1>2. ServerFit' /\ InboxesFit' /\ CanvasFit' /\ ClicksFit' /\ StacksFit'
  BY <1>1, RestFits
<1>3. /\ step \in [Users -> {"read", "list", "send", "sync", "sync_list"}]
      /\ msg \in [Users -> Packet \cup {<<>>}] /\ todo \in [Users -> SUBSET Users]
      /\ HandlerFit(u)
  BY DEF Fit, HandlersFit
<1>4. /\ ItemsOf(Active(events)) \in SUBSET Item /\ OnePerSeq(ItemsOf(Active(events)))
      /\ picture \in SUBSET Nat
  BY ItemsFit DEF Fit, ServerFit
<1>5. CASE ListActive(u)
  <2> DEFINE m == [msg[u] EXCEPT !.list = ItemsOf(Active(events))]
  <2>1. step[u] = "list" /\ Fits(msg[u], lastSeq) /\ msg[u].by = u /\ msg[u].kind = "undo"
    BY <1>3, <1>5 DEF HandlerFit, ListActive
  <2>2. m \in Packet /\ Fits(m, lastSeq) /\ m.by = u /\ m.kind = "undo"
    BY <1>4, <2>1 DEF Fits, Packet
  <2> HIDE DEF m
  <2>3. /\ msg' = [msg EXCEPT ![u] = m] /\ step' = [step EXCEPT ![u] = "send"]
        /\ todo' = [todo EXCEPT ![u] = Users]
    BY <1>3, <1>5 DEF ListActive, m
  <2> DEFINE s == "send"
             T == Users
  <2>4. /\ s \in {"read", "list", "send", "sync", "sync_list"} /\ T \in SUBSET Users
        /\ step' = [step EXCEPT ![u] = s] /\ todo' = [todo EXCEPT ![u] = T]
        /\ (T # {} <=> s = "send") /\ (s = "list" => m.kind = "undo")
        /\ (s \in {"sync", "sync_list"} => m.kind = "sync")
        /\ (s = "send" /\ m.kind = "sync" => T = {u})
        /\ Fits(m, lastSeq') /\ m \in Packet \cup {<<>>} /\ lastSeq' \in Nat /\ lastSeq <= lastSeq'
    BY <1>1, <2>2, <2>3
  <2> HIDE DEF s, T
  <2>5. HandlersFit'
    BY <1>1, <2>2, <2>3, <2>4, HandlersKept
  <2> QED
    BY <1>2, <2>5 DEF Fit
<1>6. CASE SyncSnapshot(u)
  <2> DEFINE m == [msg[u] EXCEPT !.backdrop = picture]
  <2>1. step[u] = "sync" /\ Fits(msg[u], lastSeq) /\ msg[u].by = u /\ msg[u].kind = "sync" /\ todo[u] = {}
    BY <1>3, <1>6 DEF HandlerFit, SyncSnapshot
  <2>2. m \in Packet /\ Fits(m, lastSeq) /\ m.by = u /\ m.kind = "sync"
    BY <1>4, <2>1 DEF Fits, Packet
  <2> HIDE DEF m
  <2>3. /\ msg' = [msg EXCEPT ![u] = m] /\ step' = [step EXCEPT ![u] = "sync_list"]
        /\ todo' = [todo EXCEPT ![u] = {}]
    BY <1>3, <1>6, <2>1 DEF SyncSnapshot, m
  <2> DEFINE s == "sync_list"
             T == {}
  <2>4. /\ s \in {"read", "list", "send", "sync", "sync_list"} /\ T \in SUBSET Users
        /\ step' = [step EXCEPT ![u] = s] /\ todo' = [todo EXCEPT ![u] = T]
        /\ (T # {} <=> s = "send") /\ (s = "list" => m.kind = "undo")
        /\ (s \in {"sync", "sync_list"} => m.kind = "sync")
        /\ (s = "send" /\ m.kind = "sync" => T = {u})
        /\ Fits(m, lastSeq') /\ m \in Packet \cup {<<>>} /\ lastSeq' \in Nat /\ lastSeq <= lastSeq'
    BY <1>1, <2>2, <2>3
  <2> HIDE DEF s, T
  <2>5. HandlersFit'
    BY <1>1, <2>2, <2>3, <2>4, HandlersKept
  <2> QED
    BY <1>2, <2>5 DEF Fit
<1>7. CASE SyncEvents(u)
  <2> DEFINE n == [msg[u] EXCEPT !.list = ItemsOf(Active(events))]
             m == [n EXCEPT !.seq = lastSeq]
  <2>1. step[u] = "sync_list" /\ Fits(msg[u], lastSeq) /\ msg[u].by = u /\ msg[u].kind = "sync"
    BY <1>3, <1>7 DEF HandlerFit, SyncEvents
  <2>0. n \in Packet /\ Fits(n, lastSeq) /\ n.by = u /\ n.kind = "sync"
    BY <1>4, <2>1 DEF Fits, Packet
  <2>3. /\ msg' = [msg EXCEPT ![u] = m] /\ step' = [step EXCEPT ![u] = "send"]
        /\ todo' = [todo EXCEPT ![u] = {u}]
    BY <1>3, <1>7 DEF SyncEvents
  <2> HIDE DEF n
  <2>2. m \in Packet /\ Fits(m, lastSeq) /\ m.by = u /\ m.kind = "sync"
    BY <1>1, <2>0 DEF Fits, Packet
  <2> HIDE DEF m
  <2> DEFINE s == "send"
             T == {u}
  <2>4. /\ s \in {"read", "list", "send", "sync", "sync_list"} /\ T \in SUBSET Users
        /\ step' = [step EXCEPT ![u] = s] /\ todo' = [todo EXCEPT ![u] = T]
        /\ (T # {} <=> s = "send") /\ (s = "list" => m.kind = "undo")
        /\ (s \in {"sync", "sync_list"} => m.kind = "sync")
        /\ (s = "send" /\ m.kind = "sync" => T = {u})
        /\ Fits(m, lastSeq') /\ m \in Packet \cup {<<>>} /\ lastSeq' \in Nat /\ lastSeq <= lastSeq'
    BY <1>1, <2>2, <2>3
  <2> HIDE DEF s, T
  <2>5. HandlersFit'
    BY <1>1, <2>2, <2>3, <2>4, HandlersKept
  <2> QED
    BY <1>2, <2>5 DEF Fit
<1> QED
  BY <1>5, <1>6, <1>7

\* _broadcast_to_room in these words
LEMMA Sends ==
    ASSUME Fit, NEW u \in Users, NEW v \in Users, Send(u, v)
    PROVE  /\ v \in todo[u] /\ step[u] = "send" /\ msg[u] \in Packet /\ Fits(msg[u], lastSeq)
           /\ msg[u].by = u /\ (msg[u].kind = "sync" => v = u /\ todo[u] = {u})
           /\ inbox' = [inbox EXCEPT ![v] = Append(@, msg[u])]
           /\ todo' = [todo EXCEPT ![u] = @ \ {v}]
           /\ step' = [step EXCEPT ![u] = IF todo[u] = {v} THEN "read" ELSE "send"]
           /\ msg' = [msg EXCEPT ![u] = IF todo[u] = {v} THEN <<>> ELSE msg[u]]
           /\ lastSeq \in Nat /\ lastSeq' = lastSeq /\ newest[v] \in Nat
           /\ UNCHANGED <<server, canvas, stacks, input, moves, reused>>
<1>1. /\ msg \in [Users -> Packet \cup {<<>>}] /\ HandlerFit(u) /\ lastSeq \in Nat /\ newest[v] \in Nat
  BY DEF Fit, HandlersFit, ServerFit, InboxesFit
<1>2. v \in todo[u] /\ step[u] = "send" /\ Fits(msg[u], lastSeq) /\ msg[u].by = u
  BY <1>1 DEF HandlerFit, Send
<1>3. msg' = [msg EXCEPT ![u] = IF todo[u] = {v} THEN <<>> ELSE msg[u]]
  BY <1>1 DEF Send
<1> QED
  BY <1>1, <1>2, <1>3 DEF Send, HandlerFit, Fits, server

LEMMA FitWhenSent == ASSUME Fit, NEW u \in Users, NEW v \in Users, Send(u, v) PROVE Fit'
<1>1. /\ v \in todo[u] /\ step[u] = "send" /\ msg[u] \in Packet /\ Fits(msg[u], lastSeq)
      /\ msg[u].by = u /\ (msg[u].kind = "sync" => v = u /\ todo[u] = {u})
      /\ inbox' = [inbox EXCEPT ![v] = Append(@, msg[u])]
      /\ todo' = [todo EXCEPT ![u] = @ \ {v}]
      /\ step' = [step EXCEPT ![u] = IF todo[u] = {v} THEN "read" ELSE "send"]
      /\ msg' = [msg EXCEPT ![u] = IF todo[u] = {v} THEN <<>> ELSE msg[u]]
      /\ lastSeq \in Nat /\ lastSeq' = lastSeq /\ UNCHANGED <<server, canvas, stacks, input>>
  BY Sends
<1>2. ServerFit' /\ CanvasFit' /\ ClicksFit' /\ StacksFit'
  BY <1>1, RestFits
<1>3. todo \in [Users -> SUBSET Users]
  BY DEF Fit, HandlersFit
<1>4. HandlersFit'
  <2> DEFINE s == IF todo[u] = {v} THEN "read" ELSE "send"
             m == IF todo[u] = {v} THEN <<>> ELSE msg[u]
             T == todo[u] \ {v}
  <2>1. /\ s \in {"read", "list", "send", "sync", "sync_list"} /\ T \in SUBSET Users
        /\ m \in Packet \cup {<<>>}
        /\ step' = [step EXCEPT ![u] = s] /\ msg' = [msg EXCEPT ![u] = m]
        /\ todo' = [todo EXCEPT ![u] = T]
        /\ (s # "read" => Fits(m, lastSeq') /\ m.by = u)
        /\ (T # {} <=> s = "send") /\ (s = "list" => m.kind = "undo")
        /\ (s \in {"sync", "sync_list"} => m.kind = "sync")
        /\ (s = "send" /\ m.kind = "sync" => T = {u})
        /\ lastSeq' \in Nat /\ lastSeq <= lastSeq'
    BY <1>1, <1>3
  <2> HIDE DEF s, m, T
  <2> QED
    BY <2>1, HandlersKept
<1>5. InboxesFit'
  <2>1. /\ inbox \in [Users -> Seq(Packet)] /\ newest \in [Users -> Nat]
        /\ \A w \in Users : InboxFit(inbox[w]) /\ newest[w] <= lastSeq
    BY DEF Fit, InboxesFit
  <2>2. newest' = [newest EXCEPT ![v] = @] \/ newest' = [newest EXCEPT ![v] = msg[u].seq]
    BY DEF Send
  <2>3. msg[u].seq \in Nat /\ msg[u].seq <= lastSeq
    BY <1>1 DEF Fits, Packet
  <2>4. newest' \in [Users -> Nat] /\ \A w \in Users : newest'[w] <= lastSeq'
    BY <1>1, <2>1, <2>2, <2>3
  <2>5. /\ Append(inbox[v], msg[u]) \in Seq(Packet)
        /\ \A i \in 1 .. Len(Append(inbox[v], msg[u])) :
              \/ i \in 1 .. Len(inbox[v]) /\ Append(inbox[v], msg[u])[i] = inbox[v][i]
              \/ Append(inbox[v], msg[u])[i] = msg[u]
    BY <1>1, <2>1, AppendSeq
  <2>6. ASSUME NEW w \in Users PROVE InboxFit(inbox[w])'
    <3>1. \A k \in 1 .. Len(inbox[w]) : Fits(inbox[w][k], lastSeq')
      BY <1>1, <2>1 DEF InboxFit
    <3>2. CASE w = v
      <4>1. inbox'[w] = Append(inbox[v], msg[u])
        BY <1>1, <2>1, <3>2
      <4> QED
        BY <1>1, <2>5, <3>1, <3>2, <4>1 DEF InboxFit
    <3>3. CASE w # v
      BY <1>1, <2>1, <3>1, <3>3 DEF InboxFit
    <3> QED
      BY <3>2, <3>3
  <2> QED
    BY <1>1, <2>1, <2>4, <2>5, <2>6 DEF InboxesFit
<1> QED
  BY <1>2, <1>4, <1>5 DEF Fit

LEMMA FitWhenPruned == ASSUME Fit, TakeSnapshot PROVE Fit'
<1>1. /\ lastSeq \in Nat /\ lastSeq' = lastSeq /\ ids' = ids
      /\ UNCHANGED <<handler, inbox, newest, canvas, input, stacks>>
  BY DEF TakeSnapshot, history, Fit, ServerFit
<1>2. HandlersFit' /\ InboxesFit' /\ CanvasFit' /\ ClicksFit' /\ StacksFit'
  BY <1>1, RestFits
<1>3. PICK n : /\ picture' = picture \cup Arts(Active(UpToSeq(events, n)))
               /\ events' = AfterSeq(events, n)
  BY DEF TakeSnapshot
<1>4. Arts(Active(UpToSeq(events, n))) \subseteq Nat
  BY DEF Fit, ServerFit, Arts, Active, UpToSeq, Drawings, Event
<1>5. events' \subseteq events
  BY <1>3 DEF AfterSeq
<1>6. IsFiniteSet(events')
  BY <1>5, FS_Subset DEF Fit, ServerFit
<1>7. ServerFit'
  BY <1>1, <1>3, <1>4, <1>5, <1>6 DEF Fit, ServerFit, OnePerSeq
<1> QED
  BY <1>2, <1>7 DEF Fit

\* What the window takes from its inbox
LEMMA Handles ==
    ASSUME Fit, NEW u \in Users, inbox[u] # <<>>
    PROVE  /\ inbox[u][1] \in Packet /\ Fits(inbox[u][1], lastSeq) /\ 1 \in 1 .. Len(inbox[u])
           /\ inbox[u] \in Seq(Packet) /\ Tail(inbox[u]) \in Seq(Packet)
           /\ Len(Tail(inbox[u])) = Len(inbox[u]) - 1 /\ Len(inbox[u]) \in Nat \ {0}
           /\ \A i \in 1 .. Len(Tail(inbox[u])) :
                 Tail(inbox[u])[i] = inbox[u][i + 1] /\ i + 1 \in 1 .. Len(inbox[u])
<1>1. inbox[u] \in Seq(Packet) /\ InboxFit(inbox[u])
  BY DEF Fit, InboxesFit
<1>2. Len(inbox[u]) \in Nat \ {0}
  BY <1>1
<1> QED
  BY <1>1, <1>2, TailSeq DEF InboxFit

LEMMA InboxHandled ==
    ASSUME Fit, NEW u \in Users, inbox[u] # <<>>, inbox' = [inbox EXCEPT ![u] = Tail(@)],
           lastSeq' = lastSeq, newest' = newest
    PROVE  InboxesFit'
<1>1. /\ inbox \in [Users -> Seq(Packet)] /\ \A w \in Users : InboxFit(inbox[w])
  BY DEF Fit, InboxesFit
<1>2. /\ Tail(inbox[u]) \in Seq(Packet)
      /\ \A i \in 1 .. Len(Tail(inbox[u])) :
            Tail(inbox[u])[i] = inbox[u][i + 1] /\ i + 1 \in 1 .. Len(inbox[u])
  BY Handles
<1>3. ASSUME NEW w \in Users PROVE InboxFit(inbox[w])'
  <2>1. CASE w = u
    <3>1. inbox'[w] = Tail(inbox[u])
      BY <1>1, <2>1
    <3> QED
      BY <1>1, <1>2, <3>1 DEF InboxFit
  <2>2. CASE w # u
    BY <1>1, <2>2 DEF InboxFit
  <2> QED
    BY <2>1, <2>2
<1> QED
  BY <1>1, <1>2, <1>3 DEF Fit, InboxesFit

LEMMA FitWhenHandled ==
    ASSUME Fit, NEW u \in Users, OnDrawBroadcast(u) \/ OnWhiteboardSync(u)
    PROVE  Fit'
<1> DEFINE m == inbox[u][1]
<1>1. /\ UNCHANGED <<server, handler, input, newest>> /\ lastSeq' = lastSeq /\ lastSeq \in Nat
      /\ inbox[u] # <<>> /\ inbox' = [inbox EXCEPT ![u] = Tail(@)]
  BY DEF OnDrawBroadcast, OnWhiteboardSync, server, history, input, Fit, ServerFit
<1>2. /\ ServerFit' /\ HandlersFit' /\ ClicksFit' /\ InboxesFit'
      /\ (UNCHANGED canvas => CanvasFit') /\ (UNCHANGED stacks => StacksFit')
  <2>1. lastSeq' \in Nat /\ lastSeq <= lastSeq' /\ newest' = newest
    BY <1>1
  <2>2. InboxesFit'
    BY <1>1, <2>1, InboxHandled
  <2> QED
    BY <1>1, <2>1, <2>2, RestFits
<1>3. m \in Packet /\ Fits(m, lastSeq)
  BY <1>1, Handles
<1>4. /\ m.seq \in Nat /\ m.art \in Nat /\ m.target \in Nat /\ m.seq <= lastSeq /\ m.target <= lastSeq
      /\ (m.kind # "sync" => 1 <= m.seq) /\ (m.kind = "draw" => m.target = 0)
      /\ m.list \in SUBSET Item /\ OnePerSeq(m.list) /\ m.backdrop \in SUBSET Nat
  BY <1>3 DEF Fits, Packet
<1> HIDE DEF m
<1>5. /\ items \in [Users -> SUBSET Item] /\ backdrop \in [Users -> SUBSET Nat]
      /\ \A v \in Users : OnePerSeq(items[v])
      /\ drawn \in [Users -> Seq(Nat)] /\ undone \in [Users -> Seq(Nat)]
      /\ redo \in [Users -> SUBSET (Nat \X Nat)]
  BY DEF Fit, CanvasFit, StacksFit
<1>6. CASE OnWhiteboardSync(u)
  <2>1. /\ items' = [items EXCEPT ![u] = m.list] /\ backdrop' = [backdrop EXCEPT ![u] = m.backdrop]
        /\ drawn' = [drawn EXCEPT ![u] = <<>>] /\ undone' = [undone EXCEPT ![u] = <<>>]
        /\ redo' = [redo EXCEPT ![u] = {}]
    BY <1>6 DEF OnWhiteboardSync, ApplySnapshot, ClearStacks, m
  <2>2. CanvasFit'
    BY <1>4, <1>5, <2>1 DEF CanvasFit
  <2>3. StacksFit'
    BY <1>1, <1>5, <2>1 DEF Fit, StacksFit
  <2> QED
    BY <1>2, <2>2, <2>3 DEF Fit
<1>7. CASE OnDrawBroadcast(u) /\ m.kind = "draw"
  <2> DEFINE item == [seq |-> m.seq, art |-> m.art]
             I == {x \in items[u] : x.seq # m.seq} \cup {item}
  <2>1. /\ items' = [items EXCEPT ![u] = {x \in @ : x.seq # item.seq} \cup {item}]
        /\ backdrop' = backdrop /\ redo' = redo /\ undone' = undone
        /\ drawn' = IF m.by = u THEN [drawn EXCEPT ![u] = Append(@, m.seq)] ELSE drawn
    BY <1>7 DEF OnDrawBroadcast, Draw, m
  <2>2. items' = [items EXCEPT ![u] = I] /\ I \in SUBSET Item /\ OnePerSeq(I)
    BY <1>4, <1>5, <2>1 DEF Item, OnePerSeq
  <2> HIDE DEF I
  <2>3. CanvasFit'
    BY <1>5, <2>1, <2>2 DEF CanvasFit
  <2>4. /\ Append(drawn[u], m.seq) \in Seq(Nat)
        /\ \A i \in 1 .. Len(Append(drawn[u], m.seq)) :
              \/ i \in 1 .. Len(drawn[u]) /\ Append(drawn[u], m.seq)[i] = drawn[u][i]
              \/ Append(drawn[u], m.seq)[i] = m.seq
    BY <1>4, <1>5, AppendSeq
  <2>5. ASSUME NEW v \in Users, NEW i \in 1 .. Len(drawn'[v])
        PROVE  1 <= drawn'[v][i] /\ drawn'[v][i] <= lastSeq
    <3>1. \A k \in 1 .. Len(drawn[v]) : 1 <= drawn[v][k] /\ drawn[v][k] <= lastSeq
      BY DEF Fit, StacksFit
    <3>2. CASE v = u /\ m.by = u
      <4>1. drawn'[v] = Append(drawn[u], m.seq)
        BY <1>5, <2>1, <3>2
      <4> QED
        BY <1>4, <1>7, <2>4, <3>1, <3>2, <4>1
    <3>3. CASE ~(v = u /\ m.by = u)
      BY <1>5, <2>1, <3>1, <3>3
    <3> QED
      BY <3>2, <3>3
  <2>6. drawn' \in [Users -> Seq(Nat)]
    BY <1>5, <2>1, <2>4
  <2>7. StacksFit'
    BY <1>1, <1>5, <2>1, <2>5, <2>6 DEF Fit, StacksFit
  <2> QED
    BY <1>2, <2>3, <2>7 DEF Fit
<1>8. CASE OnDrawBroadcast(u) /\ m.kind = "undo"
  <2>1. /\ items' = [items EXCEPT ![u] = m.list] /\ backdrop' = [backdrop EXCEPT ![u] = {}]
        /\ drawn' = drawn /\ undone' = undone
        /\ redo' = redo \/ redo' = [redo EXCEPT ![u] = {p \in @ : p[1] # m.target}
                                                       \cup {<<m.target, m.seq>>}]
    BY <1>8 DEF OnDrawBroadcast, Replace, RecordOwnUndo, m
  <2>2. CanvasFit'
    BY <1>4, <1>5, <2>1 DEF CanvasFit
  <2> DEFINE R == {p \in redo[u] : p[1] # m.target} \cup {<<m.target, m.seq>>}
  <2>3. redo' = redo \/ redo' = [redo EXCEPT ![u] = R]
    BY <2>1
  <2>4. /\ R \in SUBSET (Nat \X Nat) /\ \A p \in R : p[1] <= lastSeq /\ 1 <= p[2] /\ p[2] <= lastSeq
        /\ \A p, q \in R : p[1] = q[1] => p = q
    <3>1. /\ \A p \in redo[u] : p \in Nat \X Nat /\ p[1] <= lastSeq /\ 1 <= p[2] /\ p[2] <= lastSeq
          /\ \A p, q \in redo[u] : p[1] = q[1] => p = q
      BY <1>5 DEF Fit, StacksFit
    <3>2. 1 <= m.seq /\ <<m.target, m.seq>> \in Nat \X Nat
      BY <1>4, <1>8
    <3> QED
      BY <1>4, <3>1, <3>2
  <2> HIDE DEF R
  <2>5. StacksFit'
    <3>1. redo' \in [Users -> SUBSET (Nat \X Nat)]
      BY <1>5, <2>3, <2>4
    <3>2. ASSUME NEW v \in Users
          PROVE  /\ \A p \in redo'[v] : p[1] <= lastSeq' /\ 1 <= p[2] /\ p[2] <= lastSeq'
                 /\ \A p, q \in redo'[v] : p[1] = q[1] => p = q
      <4>1. redo'[v] = redo[v] \/ redo'[v] = R
        BY <1>5, <2>3
      <4> QED
        BY <1>1, <2>4, <4>1 DEF Fit, StacksFit
    <3> QED
      BY <1>1, <1>5, <2>1, <3>1, <3>2 DEF Fit, StacksFit
  <2> QED
    BY <1>2, <2>2, <2>5 DEF Fit
<1> QED
  BY <1>6, <1>7, <1>8 DEF OnDrawBroadcast, m

\* The window turns to another room, or back to this one, or takes a packet of
\* this room while it is at another.
Turns(u) == SelectOther(u) \/ SelectRoom(u)

LEMMA Turned ==
    ASSUME Fit, NEW u \in Users, Turns(u)
    PROVE  /\ items' = [items EXCEPT ![u] = {}] /\ backdrop' = [backdrop EXCEPT ![u] = {}]
           /\ drawn' = [drawn EXCEPT ![u] = <<>>] /\ undone' = [undone EXCEPT ![u] = <<>>]
           /\ redo' = [redo EXCEPT ![u] = {}] /\ blind' = blind \cup {u}
           /\ drawn'[u] = <<>> /\ undone'[u] = <<>> /\ redo'[u] = {} /\ items'[u] = {}
           /\ \A v \in Users \ {u} : /\ drawn'[v] = drawn[v] /\ undone'[v] = undone[v]
                                     /\ redo'[v] = redo[v] /\ items'[v] = items[v]
           /\ UNCHANGED <<server, handler, inbox, input, history>>
<1>1. /\ drawn \in [Users -> Seq(Nat)] /\ undone \in [Users -> Seq(Nat)]
      /\ redo \in [Users -> SUBSET (Nat \X Nat)] /\ items \in [Users -> SUBSET Item]
  BY DEF Fit, StacksFit, CanvasFit
<1>2. /\ items' = [items EXCEPT ![u] = {}] /\ backdrop' = [backdrop EXCEPT ![u] = {}]
      /\ drawn' = [drawn EXCEPT ![u] = <<>>] /\ undone' = [undone EXCEPT ![u] = <<>>]
      /\ redo' = [redo EXCEPT ![u] = {}] /\ blind' = blind \cup {u}
      /\ UNCHANGED <<server, handler, inbox, input, history>>
  BY DEF Turns, SelectOther, SelectRoom, ClearAll, ClearStacks
<1> QED
  BY <1>1, <1>2

LEMMA FitWhenTurned == ASSUME Fit, NEW u \in Users, Turns(u) PROVE Fit'
<1>1. /\ items' = [items EXCEPT ![u] = {}] /\ backdrop' = [backdrop EXCEPT ![u] = {}]
      /\ drawn' = [drawn EXCEPT ![u] = <<>>] /\ undone' = [undone EXCEPT ![u] = <<>>]
      /\ redo' = [redo EXCEPT ![u] = {}] /\ UNCHANGED <<server, handler, inbox, input, history>>
  BY Turned
<1>2. lastSeq' = lastSeq /\ lastSeq \in Nat /\ newest' = newest
  BY <1>1 DEF server, history, Fit, ServerFit
<1>3. ServerFit' /\ HandlersFit' /\ InboxesFit' /\ ClicksFit'
  BY <1>1, <1>2, RestFits
<1>4. CanvasFit' /\ StacksFit'
  BY <1>1, <1>2 DEF Fit, CanvasFit, StacksFit, OnePerSeq
<1> QED
  BY <1>3, <1>4 DEF Fit

LEMMA FitWhenDropped == ASSUME Fit, NEW u \in Users, PacketDropped(u) PROVE Fit'
<1>1. /\ UNCHANGED <<server, handler, canvas, stacks, input, newest>>
      /\ lastSeq' = lastSeq /\ lastSeq \in Nat
      /\ inbox[u] # <<>> /\ inbox' = [inbox EXCEPT ![u] = Tail(@)]
  BY DEF PacketDropped, server, history, Fit, ServerFit
<1>2. ServerFit' /\ HandlersFit' /\ CanvasFit' /\ ClicksFit' /\ StacksFit'
  BY <1>1, RestFits
<1> QED
  BY <1>1, <1>2, InboxHandled DEF Fit

\* The sync of a join starts, and the others no longer send to u, if they ever
\* did.
LEMMA Joins ==
    ASSUME Fit, NEW u \in Users, JoinAgain(u) \/ Reconnect(u) \/ Restart(u)
    PROVE  /\ step[u] = "read" /\ todo[u] = {}
           /\ \E m \in Packet : /\ msg' = [msg EXCEPT ![u] = m] /\ m.kind = "sync"
                                /\ Fits(m, lastSeq) /\ m.by = u
           /\ step'[u] = "sync" /\ todo'[u] = {}
           /\ \A v \in Users \ {u} : \/ step'[v] = step[v] /\ todo'[v] = todo[v]
                                     \/ /\ step[v] = "send" /\ todo'[v] = todo[v] \ {u}
                                        /\ step'[v] = IF todo[v] = {u} THEN "read" ELSE "send"
           /\ step' \in [Users -> {"read", "list", "send", "sync", "sync_list"}]
           /\ todo' \in [Users -> SUBSET Users] /\ msg' \in [Users -> Packet \cup {<<>>}]
           /\ \A v \in Users \ {u} : msg'[v] = msg[v]
           /\ out' = [out EXCEPT ![u] = <<>>] /\ requests' = requests
           /\ \E n \in 0 .. Len(inbox[u]) : inbox' = [inbox EXCEPT ![u] = SubSeq(@, 1, n)]
           /\ UNCHANGED <<server, newest, outOfOrder, reused>>
<1> DEFINE m == [kind |-> "sync", by |-> u, seq |-> 0, target |-> 0, art |-> 0,
                 list |-> {}, backdrop |-> {}]
<1>1. /\ step \in [Users -> {"read", "list", "send", "sync", "sync_list"}]
      /\ msg \in [Users -> Packet \cup {<<>>}] /\ todo \in [Users -> SUBSET Users]
      /\ \A v \in Users : HandlerFit(v)
      /\ inbox \in [Users -> Seq(Packet)] /\ out \in [Users -> Seq(Request)]
      /\ lastSeq \in Nat
  BY DEF Fit, HandlersFit, InboxesFit, ClicksFit, ServerFit
<1>2. step[u] = "read" /\ todo[u] = {} /\ msg' = [msg EXCEPT ![u] = m]
  BY <1>1 DEF JoinAgain, Reconnect, Restart, SyncStarts, HandlerFit
<1>3. m \in Packet /\ m.kind = "sync" /\ m.by = u /\ Fits(m, lastSeq)
  BY <1>1 DEF Packet, Fits, OnePerSeq
<1> HIDE DEF m
<1>4. msg' \in [Users -> Packet \cup {<<>>}] /\ \A v \in Users \ {u} : msg'[v] = msg[v]
  BY <1>1, <1>2, <1>3
<1>5. requests' = requests /\ UNCHANGED <<server, newest, outOfOrder, reused>>
  BY DEF JoinAgain, Reconnect, Restart, history, input
<1>6. CASE JoinAgain(u)
  <2>1. /\ step' = [step EXCEPT ![u] = "sync"] /\ todo' = todo /\ inbox' = inbox /\ out' = out
        /\ out[u] = <<>>
    BY <1>6 DEF JoinAgain, input
  <2>2. out' = [out EXCEPT ![u] = <<>>]
    BY <1>1, <2>1
  <2>3. /\ Len(inbox[u]) \in 0 .. Len(inbox[u]) /\ SubSeq(inbox[u], 1, Len(inbox[u])) = inbox[u]
    BY <1>1
  <2>4. inbox' = [inbox EXCEPT ![u] = SubSeq(@, 1, Len(inbox[u]))]
    BY <1>1, <2>1, <2>3
  <2> QED
    BY <1>1, <1>2, <1>3, <1>4, <1>5, <2>1, <2>2, <2>3, <2>4
<1>7. CASE Reconnect(u) \/ Restart(u)
  <2>1. /\ NewSession(u) /\ out' = [out EXCEPT ![u] = <<>>]
    BY <1>7 DEF Reconnect, Restart
  <2>2. \E n \in 0 .. Len(inbox[u]) : inbox' = [inbox EXCEPT ![u] = SubSeq(@, 1, n)]
    <3>1. CASE Reconnect(u)
      BY <3>1 DEF Reconnect
    <3>2. CASE Restart(u)
      <4>1. 0 \in 0 .. Len(inbox[u]) /\ SubSeq(inbox[u], 1, 0) = <<>>
        BY <1>1
      <4>2. inbox' = [inbox EXCEPT ![u] = SubSeq(@, 1, 0)]
        BY <3>2, <4>1 DEF Restart
      <4> QED
        BY <4>1, <4>2
    <3> QED
      BY <1>7, <3>1, <3>2
  <2>3. /\ todo' = [v \in Users |-> todo[v] \ {u}]
        /\ step' = [v \in Users |-> IF v = u THEN "sync" ELSE IF todo[v] = {u} THEN "read" ELSE step[v]]
    BY <2>1 DEF NewSession
  <2>4. /\ todo' \in [Users -> SUBSET Users]
        /\ step' \in [Users -> {"read", "list", "send", "sync", "sync_list"}]
        /\ step'[u] = "sync" /\ todo'[u] = {}
    BY <1>1, <1>2, <2>3
  <2>5. ASSUME NEW v \in Users \ {u}
        PROVE  \/ step'[v] = step[v] /\ todo'[v] = todo[v]
               \/ /\ step[v] = "send" /\ todo'[v] = todo[v] \ {u}
                  /\ step'[v] = IF todo[v] = {u} THEN "read" ELSE "send"
    <3>1. HandlerFit(v)
      BY <1>1
    <3>2. todo'[v] = todo[v] \ {u} /\ step'[v] = IF todo[v] = {u} THEN "read" ELSE step[v]
      BY <2>3
    <3> QED
      BY <3>1, <3>2 DEF HandlerFit
  <2> QED
    BY <1>2, <1>3, <1>4, <1>5, <2>1, <2>2, <2>4, <2>5
<1> QED
  BY <1>6, <1>7

LEMMA FitWhenJoined ==
    ASSUME Fit, NEW u \in Users, JoinAgain(u) \/ Reconnect(u) \/ Restart(u)
    PROVE  Fit'
<1>1. PICK m \in Packet : /\ msg' = [msg EXCEPT ![u] = m] /\ m.kind = "sync"
                          /\ Fits(m, lastSeq) /\ m.by = u
  BY Joins
<1>2. PICK n \in 0 .. Len(inbox[u]) : inbox' = [inbox EXCEPT ![u] = SubSeq(@, 1, n)]
  BY Joins
<1>3. /\ step'[u] = "sync" /\ todo'[u] = {}
      /\ \A v \in Users \ {u} : \/ step'[v] = step[v] /\ todo'[v] = todo[v]
                                \/ /\ step[v] = "send" /\ todo'[v] = todo[v] \ {u}
                                   /\ step'[v] = IF todo[v] = {u} THEN "read" ELSE "send"
      /\ step' \in [Users -> {"read", "list", "send", "sync", "sync_list"}]
      /\ todo' \in [Users -> SUBSET Users] /\ msg' \in [Users -> Packet \cup {<<>>}]
      /\ \A v \in Users \ {u} : msg'[v] = msg[v]
      /\ out' = [out EXCEPT ![u] = <<>>] /\ requests' = requests
      /\ UNCHANGED <<server, newest>>
  BY Joins
<1>4. /\ lastSeq \in Nat /\ lastSeq' = lastSeq /\ \A v \in Users : HandlerFit(v)
      /\ msg \in [Users -> Packet \cup {<<>>}]
  BY <1>3 DEF Fit, ServerFit, HandlersFit, server
<1>5. ServerFit' /\ (UNCHANGED canvas => CanvasFit') /\ (UNCHANGED stacks => StacksFit')
  <2>1. lastSeq' \in Nat /\ lastSeq <= lastSeq'
    BY <1>4
  <2> QED
    BY <1>3, <2>1, RestFits
<1>6. HandlersFit'
  <2>1. ASSUME NEW v \in Users PROVE HandlerFit(v)'
    <3>1. CASE v = u
      BY <1>1, <1>3, <1>4, <3>1 DEF HandlerFit
    <3>2. CASE v # u
      <4>1. HandlerFit(v) /\ msg'[v] = msg[v]
        BY <1>3, <1>4, <3>2
      <4>2. CASE step'[v] = step[v] /\ todo'[v] = todo[v]
        BY <1>4, <4>1, <4>2 DEF HandlerFit
      <4>3. CASE /\ step[v] = "send" /\ todo'[v] = todo[v] \ {u}
                 /\ step'[v] = IF todo[v] = {u} THEN "read" ELSE "send"
        BY <1>4, <3>2, <4>1, <4>3 DEF HandlerFit
      <4> QED
        BY <1>3, <3>2, <4>2, <4>3
    <3> QED
      BY <3>1, <3>2
  <2> QED
    BY <1>3, <2>1 DEF HandlersFit
<1>7. InboxesFit'
  <2>1. inbox \in [Users -> Seq(Packet)] /\ newest \in [Users -> Nat]
        /\ \A v \in Users : InboxFit(inbox[v]) /\ newest[v] <= lastSeq
    BY DEF Fit, InboxesFit
  <2>2. /\ SubSeq(inbox[u], 1, n) \in Seq(Packet) /\ Len(SubSeq(inbox[u], 1, n)) = n
        /\ \A i \in 1 .. n : SubSeq(inbox[u], 1, n)[i] = inbox[u][i] /\ i \in 1 .. Len(inbox[u])
    BY <2>1, PrefixSeq
  <2>3. ASSUME NEW v \in Users PROVE InboxFit(inbox[v])'
    <3>1. CASE v = u
      <4>1. inbox'[v] = SubSeq(inbox[u], 1, n)
        BY <1>2, <2>1, <3>1
      <4> QED
        BY <1>4, <2>1, <2>2, <3>1, <4>1 DEF InboxFit
    <3>2. CASE v # u
      BY <1>2, <1>4, <2>1, <3>2 DEF InboxFit
    <3> QED
      BY <3>1, <3>2
  <2> QED
    BY <1>2, <1>3, <1>4, <2>1, <2>2, <2>3 DEF InboxesFit
<1>8. counter' \in [Users -> Nat]
  BY DEF Fit, ClicksFit, JoinAgain, Reconnect, Restart, input
<1>9. ClicksFit'
  <2>1. out \in [Users -> Seq(Request)] /\ requests \in Nat /\ requests <= MaxRequests
        /\ \A v \in Users : \A i \in 1 .. Len(out[v]) : out[v][i].target <= lastSeq
    BY DEF Fit, ClicksFit
  <2> QED
    BY <1>3, <1>4, <1>8, <2>1 DEF ClicksFit
<1>10. CanvasFit' /\ StacksFit'
  <2>1. CASE JoinAgain(u) \/ Reconnect(u)
    BY <1>5, <2>1 DEF JoinAgain, Reconnect
  <2>2. CASE Restart(u)
    <3>1. /\ items' = [items EXCEPT ![u] = {}] /\ backdrop' = [backdrop EXCEPT ![u] = {}]
          /\ drawn' = [drawn EXCEPT ![u] = <<>>] /\ undone' = [undone EXCEPT ![u] = <<>>]
          /\ redo' = [redo EXCEPT ![u] = {}]
      BY <2>2 DEF Restart, ClearAll, ClearStacks
    <3> QED
      BY <1>4, <3>1 DEF Fit, CanvasFit, StacksFit, OnePerSeq
  <2> QED
    BY <2>1, <2>2
<1> QED
  BY <1>5, <1>6, <1>7, <1>9, <1>10 DEF Fit

LEMMA FitKept == ASSUME Fit, [Next]_vars PROVE Fit'
<1>1. CASE UNCHANGED vars
  BY <1>1, RestFits DEF vars, history, server, input, Fit, ServerFit
<1> QED
  BY <1>1, FitWhenClicked, FitWhenAdded, FitWhenRead, FitWhenSent, FitWhenHandled, FitWhenTurned,
     FitWhenDropped, FitWhenJoined, FitWhenPruned DEF Next, Turns

LEMMA WindowInit == Init => WindowFit
BY DEF Init, WindowFit

LEMMA WindowKept == ASSUME Fit, WindowFit, [Next]_vars PROVE WindowFit'
<1>1. /\ here \subseteq Users /\ blind \subseteq Users
      /\ \A u \in Users : u \in here \/ (u \in blind /\ undone[u] = <<>>)
      /\ undone \in [Users -> Seq(Nat)]
  BY DEF WindowFit, Fit, StacksFit
<1>2. ASSUME NEW u \in Users, ShapeCompleted(u) \/ OnUndoClicked(u) \/ OnRedoClicked(u)
      PROVE  WindowFit'
  <2>1. UNCHANGED window
    BY <1>2 DEF ShapeCompleted, OnUndoClicked, OnRedoClicked
  <2>2. CASE ShapeCompleted(u)
    BY <1>1, <2>1, <2>2 DEF ShapeCompleted, window, WindowFit
  <2>3. CASE OnUndoClicked(u)
    <3>1. u \in here /\ \A v \in Users \ {u} : undone'[v] = undone[v]
      BY <1>1, <2>3 DEF OnUndoClicked, SendDrawEvent
    <3> QED
      BY <1>1, <2>1, <3>1 DEF window, WindowFit
  <2>4. CASE OnRedoClicked(u)
    <3>1. undone[u] # <<>> /\ \A v \in Users \ {u} : undone'[v] = undone[v]
      BY <1>1, <2>4 DEF OnRedoClicked
    <3>2. u \in here
      BY <1>1, <3>1
    <3> QED
      BY <1>1, <2>1, <3>1, <3>2 DEF window, WindowFit
  <2> QED
    BY <1>2, <2>2, <2>3, <2>4
<1>3. CASE undone' = undone /\ UNCHANGED window
  BY <1>1, <1>3 DEF window, WindowFit
<1>4. ASSUME NEW u \in Users, \/ AddEvent(u) \/ ListActive(u) \/ SyncSnapshot(u) \/ SyncEvents(u)
                              \/ OnDrawBroadcast(u) \/ PacketDropped(u) \/ JoinAgain(u) \/ Reconnect(u)
                              \/ \E v \in Users : Send(u, v)
      PROVE  WindowFit'
  <2>1. undone' = undone /\ UNCHANGED window
    BY <1>4 DEF AddEvent, ListActive, SyncSnapshot, SyncEvents, OnDrawBroadcast, PacketDropped,
                JoinAgain, Reconnect, Send, stacks
  <2> QED
    BY <1>3, <2>1
<1>5. ASSUME NEW u \in Users, OnWhiteboardSync(u) PROVE WindowFit'
  <2>1. u \in here /\ here' = here /\ blind' = blind \ {u} /\ undone' = [undone EXCEPT ![u] = <<>>]
    BY <1>5 DEF OnWhiteboardSync, ClearStacks
  <2> QED
    BY <1>1, <2>1 DEF WindowFit
<1>6. ASSUME NEW u \in Users, Turns(u) \/ Restart(u) PROVE WindowFit'
  <2>1. /\ here' \in {here \ {u}, here \cup {u}} /\ blind' = blind \cup {u}
        /\ undone' = [undone EXCEPT ![u] = <<>>]
    BY <1>6 DEF Turns, SelectOther, SelectRoom, Restart, ClearAll, ClearStacks
  <2> QED
    BY <1>1, <2>1 DEF WindowFit
<1>7. CASE TakeSnapshot \/ UNCHANGED vars
  <2>1. undone' = undone /\ UNCHANGED window
    BY <1>7 DEF TakeSnapshot, vars, stacks
  <2> QED
    BY <1>3, <2>1
<1> QED
  BY <1>2, <1>4, <1>5, <1>6, <1>7 DEF Next, Turns

LEMMA FitAlways == Spec => []Fit
BY FitInit, FitKept, PTL DEF Spec

-----------------------------------------------------------------------------
(* An event is counted once: the last number and the requests on their way  *)
(* are at most the requests that were sent.                                 *)

Pending == {a \in 1 .. requests : \E u \in Users : \E i \in 1 .. Len(out[u]) : out[u][i].art = a}

OnTheWay ==
    /\ \A u \in Users : \A i \in 1 .. Len(out[u]) : out[u][i].art \in 1 .. requests
    /\ \A u, v \in Users : \A i \in 1 .. Len(out[u]) : \A j \in 1 .. Len(out[v]) :
          out[u][i].art = out[v][j].art => u = v /\ i = j

Counted == OnTheWay /\ Cardinality(Pending) + lastSeq <= requests

LEMMA PendingFinite ==
    ASSUME Fit PROVE requests \in Nat /\ IsFiniteSet(Pending) /\ Cardinality(Pending) \in Nat
<1>1. requests \in Nat
  BY DEF Fit, ClicksFit
<1>2. IsFiniteSet(1 .. requests)
  BY <1>1, FS_Interval
<1>3. Pending \in SUBSET (1 .. requests)
  BY DEF Pending
<1>4. IsFiniteSet(Pending)
  BY <1>2, <1>3, FS_Subset
<1> QED
  BY <1>1, <1>4, FS_CardinalityType

LEMMA CountedInit == Init => Counted
<1> SUFFICES ASSUME Init PROVE Counted
  OBVIOUS
<1>1. Pending = {} /\ lastSeq = 0 /\ requests = 0
  BY DEF Init, Pending
<1>2. OnTheWay
  BY DEF Init, OnTheWay
<1> QED
  BY <1>1, <1>2, FS_EmptySet DEF Counted

LEMMA CountedWhenClicked ==
    ASSUME Fit, Counted, NEW u \in Users, NEW target \in Nat, SendDrawEvent(u, target),
           lastSeq' = lastSeq
    PROVE  Counted'
<1>1. out \in [Users -> Seq(Request)] /\ counter \in [Users -> Nat] /\ requests \in Nat
      /\ IsFiniteSet(Pending) /\ Cardinality(Pending) \in Nat /\ lastSeq \in Nat
  BY PendingFinite DEF Fit, ClicksFit, ServerFit
<1> DEFINE r == [id |-> counter[u] + 1, art |-> requests + 1, target |-> target]
<1>2. r \in Request /\ r.art = requests + 1
  BY <1>1 DEF Request
<1> HIDE DEF r
<1>3. out' = [out EXCEPT ![u] = Append(@, r)] /\ requests' = requests + 1
  BY DEF SendDrawEvent, r
<1>4. /\ Append(out[u], r) \in Seq(Request) /\ Len(Append(out[u], r)) = Len(out[u]) + 1
      /\ Append(out[u], r)[Len(out[u]) + 1] = r /\ Len(out[u]) \in Nat
      /\ \A i \in 1 .. Len(out[u]) : Append(out[u], r)[i] = out[u][i]
  BY <1>1, <1>2, AppendSeq
<1>5. ASSUME NEW v \in Users, NEW i \in 1 .. Len(out'[v])
      PROVE  \/ i \in 1 .. Len(out[v]) /\ out'[v][i] = out[v][i]
             \/ v = u /\ i = Len(out[u]) + 1 /\ out'[v][i] = r
  <2>1. CASE v = u
    <3>1. out'[v] = Append(out[u], r)
      BY <1>1, <1>3, <2>1
    <3>2. i \in 1 .. Len(out[u]) \/ i = Len(out[u]) + 1
      BY <1>4, <3>1
    <3> QED
      BY <1>4, <2>1, <3>1, <3>2
  <2>2. CASE v # u
    BY <1>1, <1>3, <2>2
  <2> QED
    BY <2>1, <2>2
<1>6. OnTheWay'
  <2>1. \A v \in Users : \A i \in 1 .. Len(out[v]) : out[v][i].art \in 1 .. requests
    BY DEF Counted, OnTheWay
  <2>2. \A v \in Users : \A i \in 1 .. Len(out'[v]) : out'[v][i].art \in 1 .. requests'
    BY <1>1, <1>2, <1>3, <1>5, <2>1
  <2>3. ASSUME NEW v \in Users, NEW w \in Users, NEW i \in 1 .. Len(out'[v]),
               NEW j \in 1 .. Len(out'[w]), out'[v][i].art = out'[w][j].art
        PROVE  v = w /\ i = j
    <3>1. requests + 1 \notin 1 .. requests
      BY <1>1
    <3>2. CASE /\ i \in 1 .. Len(out[v]) /\ out'[v][i] = out[v][i]
               /\ j \in 1 .. Len(out[w]) /\ out'[w][j] = out[w][j]
      BY <2>3, <3>2 DEF Counted, OnTheWay
    <3>3. CASE i \in 1 .. Len(out[v]) /\ out'[v][i] = out[v][i] /\ out'[w][j] = r
      BY <1>2, <2>1, <2>3, <3>1, <3>3
    <3>4. CASE j \in 1 .. Len(out[w]) /\ out'[w][j] = out[w][j] /\ out'[v][i] = r
      BY <1>2, <2>1, <2>3, <3>1, <3>4
    <3> QED
      BY <1>5, <3>2, <3>3, <3>4
  <2> QED
    BY <2>2, <2>3 DEF OnTheWay
<1>7. Pending' \in SUBSET (Pending \cup {requests + 1})
  <2>1. ASSUME NEW a \in Pending' PROVE a \in Pending \cup {requests + 1}
    <3>0. PICK v \in Users : \E i \in 1 .. Len(out'[v]) : out'[v][i].art = a
      BY <2>1 DEF Pending
    <3>1. PICK i \in 1 .. Len(out'[v]) : out'[v][i].art = a
      BY <3>0
    <3>2. CASE i \in 1 .. Len(out[v]) /\ out'[v][i] = out[v][i]
      <4>1. a \in 1 .. requests
        BY <3>1, <3>2 DEF Counted, OnTheWay
      <4> QED
        BY <3>1, <3>2, <4>1 DEF Pending
    <3> QED
      BY <1>2, <1>5, <3>1, <3>2
  <2> QED
    BY <2>1
<1>8. /\ IsFiniteSet(Pending \cup {requests + 1})
      /\ Cardinality(Pending \cup {requests + 1}) <= Cardinality(Pending) + 1
      /\ Cardinality(Pending \cup {requests + 1}) \in Nat
  <2> DEFINE a == requests + 1
  <2> HIDE DEF a
  <2>1. /\ IsFiniteSet(Pending \cup {a})
        /\ Cardinality(Pending \cup {a}) = IF a \in Pending THEN Cardinality(Pending)
                                           ELSE Cardinality(Pending) + 1
    BY <1>1, FS_AddElement
  <2> QED
    BY <1>1, <2>1 DEF a
<1>9. IsFiniteSet(Pending') /\ Cardinality(Pending') <= Cardinality(Pending \cup {requests + 1})
  BY <1>7, <1>8, FS_Subset
<1>10. Cardinality(Pending') \in Nat
  BY <1>9, FS_CardinalityType
<1>11. Cardinality(Pending) + lastSeq <= requests
  BY DEF Counted
<1>12. Cardinality(Pending') + lastSeq' <= requests'
  BY <1>1, <1>3, <1>8, <1>9, <1>10, <1>11
<1> QED
  BY <1>6, <1>12 DEF Counted

LEMMA CountedWhenAdded == ASSUME Fit, Counted, NEW u \in Users, AddEvent(u) PROVE Counted'
<1>1. out \in [Users -> Seq(Request)] /\ requests \in Nat /\ lastSeq \in Nat
      /\ IsFiniteSet(Pending) /\ Cardinality(Pending) \in Nat
  BY PendingFinite DEF Fit, ClicksFit, ServerFit
<1>2. /\ out[u] # <<>> /\ out' = [out EXCEPT ![u] = Tail(@)] /\ requests' = requests
      /\ lastSeq' \in Nat /\ lastSeq' <= lastSeq + 1
  <2>1. lastSeq' = lastSeq + 1 \/ lastSeq' = lastSeq
    BY Adds
  <2>2. out[u] # <<>> /\ out' = [out EXCEPT ![u] = Tail(@)] /\ requests' = requests
    BY Adds
  <2> QED
    BY <1>1, <2>1, <2>2
<1>3. /\ Tail(out[u]) \in Seq(Request) /\ Len(Tail(out[u])) = Len(out[u]) - 1
      /\ Len(out[u]) \in Nat \ {0} /\ 1 \in 1 .. Len(out[u])
      /\ \A i \in 1 .. Len(Tail(out[u])) : Tail(out[u])[i] = out[u][i + 1] /\ i + 1 \in 1 .. Len(out[u])
  BY <1>1, <1>2, TailSeq
<1> DEFINE k(v, i) == IF v = u THEN i + 1 ELSE i
<1>4. ASSUME NEW v \in Users, NEW i \in 1 .. Len(out'[v])
      PROVE  k(v, i) \in 1 .. Len(out[v]) /\ out'[v][i] = out[v][k(v, i)]
  BY <1>1, <1>2, <1>3
<1>5. OnTheWay'
  <2>1. \A v \in Users : \A i \in 1 .. Len(out'[v]) : out'[v][i].art \in 1 .. requests'
    BY <1>2, <1>4 DEF Counted, OnTheWay
  <2>2. ASSUME NEW v \in Users, NEW w \in Users, NEW i \in 1 .. Len(out'[v]),
               NEW j \in 1 .. Len(out'[w]), out'[v][i].art = out'[w][j].art
        PROVE  v = w /\ i = j
    <3>1. /\ k(v, i) \in 1 .. Len(out[v]) /\ out'[v][i] = out[v][k(v, i)]
          /\ k(w, j) \in 1 .. Len(out[w]) /\ out'[w][j] = out[w][k(w, j)]
      BY <1>4
    <3>2. v = w /\ k(v, i) = k(w, j)
      <4> HIDE DEF k
      <4> QED
        BY <2>2, <3>1 DEF Counted, OnTheWay
    <3> QED
      BY <3>2
  <2> QED
    BY <2>1, <2>2 DEF OnTheWay
<1> DEFINE a == out[u][1].art
<1>6. a \in Pending
  BY <1>3 DEF Counted, OnTheWay, Pending
<1>7. Pending' \in SUBSET (Pending \ {a})
  <2>1. ASSUME NEW b \in Pending' PROVE b \in Pending /\ b # a
    <3>0. PICK v \in Users : \E i \in 1 .. Len(out'[v]) : out'[v][i].art = b
      BY <2>1 DEF Pending
    <3>1. PICK i \in 1 .. Len(out'[v]) : out'[v][i].art = b
      BY <3>0
    <3>2. out[v][k(v, i)].art = b /\ k(v, i) \in 1 .. Len(out[v])
      BY <1>4, <3>1
    <3>3. b \in Pending
      BY <3>2 DEF Counted, OnTheWay, Pending
    <3>4. ~ (v = u /\ k(v, i) = 1)
      OBVIOUS
    <3>5. b # a
      BY <1>3, <3>2, <3>4 DEF Counted, OnTheWay
    <3> QED
      BY <3>3, <3>5
  <2> QED
    BY <2>1
<1> HIDE DEF a
<1>8. IsFiniteSet(Pending \ {a}) /\ Cardinality(Pending \ {a}) = Cardinality(Pending) - 1
  BY <1>1, <1>6, FS_RemoveElement
<1>9. IsFiniteSet(Pending') /\ Cardinality(Pending') <= Cardinality(Pending) - 1
  BY <1>7, <1>8, FS_Subset
<1>10. Cardinality(Pending') \in Nat
  BY <1>9, FS_CardinalityType
<1>11. Cardinality(Pending) + lastSeq <= requests
  BY DEF Counted
<1>12. Cardinality(Pending') + lastSeq' <= requests'
  BY <1>1, <1>2, <1>9, <1>10, <1>11
<1> QED
  BY <1>5, <1>12 DEF Counted

LEMMA CountedWhenJoined ==
    ASSUME Fit, Counted, NEW u \in Users, out' = [out EXCEPT ![u] = <<>>], requests' = requests,
           lastSeq' = lastSeq
    PROVE  Counted'
<1>1. out \in [Users -> Seq(Request)] /\ lastSeq \in Nat /\ requests \in Nat
      /\ IsFiniteSet(Pending) /\ Cardinality(Pending) \in Nat
  BY PendingFinite DEF Fit, ClicksFit, ServerFit
<1>2. ASSUME NEW v \in Users, NEW i \in 1 .. Len(out'[v])
      PROVE  i \in 1 .. Len(out[v]) /\ out'[v][i] = out[v][i]
  BY <1>1
<1>3. OnTheWay'
  BY <1>2 DEF Counted, OnTheWay
<1>4. Pending' \in SUBSET Pending
  BY <1>2 DEF Pending
<1>5. IsFiniteSet(Pending') /\ Cardinality(Pending') <= Cardinality(Pending)
  BY <1>1, <1>4, FS_Subset
<1>6. Cardinality(Pending') \in Nat
  BY <1>5, FS_CardinalityType
<1>7. Cardinality(Pending') + lastSeq' <= requests'
  BY <1>1, <1>5, <1>6 DEF Counted
<1> QED
  BY <1>3, <1>7 DEF Counted

LEMMA CountedKept == ASSUME Fit, Counted, [Next]_vars PROVE Counted'
<1>1. CASE UNCHANGED <<out, requests, lastSeq>>
  BY <1>1 DEF Counted, OnTheWay, Pending
<1>2. ASSUME NEW u \in Users, ShapeCompleted(u) \/ OnUndoClicked(u) \/ OnRedoClicked(u)
      PROVE  Counted'
  <2>1. lastSeq' = lastSeq
    BY <1>2 DEF ShapeCompleted, OnUndoClicked, OnRedoClicked, server
  <2>2. CASE ShapeCompleted(u)
    BY <2>1, <2>2, CountedWhenClicked DEF ShapeCompleted
  <2>3. CASE OnUndoClicked(u)
    <3>1. drawn[u] \in Seq(Nat)
      BY DEF Fit, StacksFit
    <3>2. drawn[u][Len(drawn[u])] \in Nat /\ SendDrawEvent(u, drawn[u][Len(drawn[u])])
      BY <2>3, <3>1, RestSeq DEF OnUndoClicked
    <3> QED
      BY <2>1, <3>2, CountedWhenClicked
  <2>4. CASE OnRedoClicked(u)
    <3>1. \/ UNCHANGED <<out, requests>>
          \/ \E p \in redo[u] : SendDrawEvent(u, p[2])
      BY <2>4 DEF OnRedoClicked
    <3>2. \A p \in redo[u] : p[2] \in Nat
      BY DEF Fit, StacksFit
    <3> QED
      BY <1>1, <2>1, <3>1, <3>2, CountedWhenClicked
  <2> QED
    BY <1>2, <2>2, <2>3, <2>4
<1>3. ASSUME NEW u \in Users, JoinAgain(u) \/ Reconnect(u) \/ Restart(u) PROVE Counted'
  <2>1. out' = [out EXCEPT ![u] = <<>>] /\ requests' = requests /\ UNCHANGED server
    BY <1>3, Joins
  <2> QED
    BY <2>1, CountedWhenJoined DEF server
<1>4. ASSUME NEW u \in Users, \/ ListActive(u) \/ SyncSnapshot(u) \/ SyncEvents(u)
                              \/ OnDrawBroadcast(u) \/ OnWhiteboardSync(u) \/ PacketDropped(u)
                              \/ Turns(u) \/ \E v \in Users : Send(u, v)
      PROVE  Counted'
  BY <1>1, <1>4 DEF ListActive, SyncSnapshot, SyncEvents, OnDrawBroadcast, OnWhiteboardSync, Send,
                    PacketDropped, Turns, SelectOther, SelectRoom, server, input
<1>5. CASE TakeSnapshot
  BY <1>1, <1>5 DEF TakeSnapshot, input
<1>6. CASE UNCHANGED vars
  BY <1>1, <1>6 DEF vars, server, input
<1> QED
  BY <1>2, <1>3, <1>4, <1>5, <1>6, CountedWhenAdded DEF Next, Turns

-----------------------------------------------------------------------------
(* As long as no client_event_id was used twice, the window gets the answers *)
(* to its own requests in the order of their numbers, and what is on its     *)
(* stacks has lower numbers than all that are still to come.                 *)

Own(m, u) == m.by = u /\ m.kind # "sync"
Making(u) == step[u] = "list" \/ (u \in todo[u] /\ msg[u].kind # "sync")

\* The numbers of u's own events that u will be sent or has not handled
OwnDue(u) ==
    {n \in Nat : \/ \E i \in 1 .. Len(inbox[u]) : Own(inbox[u][i], u) /\ inbox[u][i].seq = n
                 \/ Making(u) /\ msg[u].seq = n}

OwnQueue(u) ==
    /\ \A i, j \in 1 .. Len(inbox[u]) :
          i < j /\ Own(inbox[u][i], u) /\ Own(inbox[u][j], u) => inbox[u][i].seq < inbox[u][j].seq
    /\ Making(u) => \A i \in 1 .. Len(inbox[u]) : Own(inbox[u][i], u) => inbox[u][i].seq < msg[u].seq

\* Answered before what u still waits for
Old(u, s) == s <= lastSeq /\ \A n \in OwnDue(u) : s < n

OldStacks(u) ==
    /\ \A p \in redo[u] : Old(u, p[2])
    /\ \A i \in 1 .. Len(drawn[u]) : Old(u, drawn[u][i])
    /\ \A i \in 1 .. Len(undone[u]) : Old(u, undone[u][i])
    /\ \A i, j \in 1 .. Len(drawn[u]) : drawn[u][i] = drawn[u][j] => i = j
    /\ \A i, j \in 1 .. Len(undone[u]) : undone[u][i] = undone[u][j] => i = j
    /\ \A i \in 1 .. Len(drawn[u]) : \A j \in 1 .. Len(undone[u]) : drawn[u][i] # undone[u][j]

OwnOrder == ~reused => \A u \in Users : OwnQueue(u) /\ OldStacks(u)

\* The queue of v when packets leave it at the head, or are lost
LEMMA QueueShrinks ==
    ASSUME Fit, NEW v \in Users, OwnQueue(v), NEW d \in Nat,
           inbox[v] \in Seq(Packet), inbox'[v] \in Seq(Packet),
           \A i \in 1 .. Len(inbox'[v]) : i + d \in 1 .. Len(inbox[v]) /\ inbox'[v][i] = inbox[v][i + d],
           Making(v)' => Making(v) /\ msg'[v].seq = msg[v].seq
    PROVE  OwnQueue(v)' /\ OwnDue(v)' \subseteq OwnDue(v)
<1>1. OwnDue(v)' \subseteq OwnDue(v)
  BY DEF OwnDue
<1>2. ASSUME NEW i \in 1 .. Len(inbox'[v]), NEW j \in 1 .. Len(inbox'[v]), i < j,
             Own(inbox'[v][i], v), Own(inbox'[v][j], v)
      PROVE  inbox'[v][i].seq < inbox'[v][j].seq
  <2>1. i + d < j + d
    BY <1>2
  <2> QED
    BY <1>2, <2>1 DEF OwnQueue
<1>3. ASSUME Making(v)', NEW i \in 1 .. Len(inbox'[v]), Own(inbox'[v][i], v)
      PROVE  inbox'[v][i].seq < msg'[v].seq
  BY <1>3 DEF OwnQueue
<1> QED
  BY <1>1, <1>2, <1>3 DEF OwnQueue

\* ... and when nothing happens to the inbox
LEMMA QueueRests ==
    ASSUME Fit, NEW v \in Users, OwnQueue(v), inbox'[v] = inbox[v],
           Making(v)' => Making(v) /\ msg'[v].seq = msg[v].seq
    PROVE  OwnQueue(v)' /\ OwnDue(v)' \subseteq OwnDue(v)
BY DEF OwnQueue, OwnDue

LEMMA QueueWhenAdded ==
    ASSUME Fit, NEW u \in Users, AddEvent(u), ~reused', NEW v \in Users, OwnQueue(v)
    PROVE  /\ OwnQueue(v)'
           /\ OwnDue(v)' \subseteq OwnDue(v) \cup {lastSeq'} /\ lastSeq' = lastSeq + 1
<1> DEFINE r == out[u][1]
<1>1. /\ step[u] = "read" /\ todo[u] = {} /\ EventSeq(u, r) = lastSeq + 1 /\ lastSeq' = lastSeq + 1
      /\ msg' = [msg EXCEPT ![u] = NewPacket(u, r)]
      /\ step' = [step EXCEPT ![u] = IF r.target = 0 THEN "send" ELSE "list"]
      /\ todo' = [todo EXCEPT ![u] = IF r.target = 0 THEN Users ELSE {}]
      /\ inbox' = inbox /\ lastSeq \in Nat
  BY Adds
<1>2. /\ msg \in [Users -> Packet \cup {<<>>}] /\ todo \in [Users -> SUBSET Users]
      /\ step \in [Users -> {"read", "list", "send", "sync", "sync_list"}]
  BY DEF Fit, HandlersFit
<1>3. CASE v = u
  <2>1. msg'[v].seq = lastSeq + 1 /\ ~Making(v)
    BY <1>1, <1>2, <1>3 DEF NewPacket, Making
  <2>2. \A i \in 1 .. Len(inbox[v]) : inbox[v][i].seq <= lastSeq /\ inbox[v][i].seq \in Nat
    BY DEF Fit, InboxesFit, InboxFit, Fits, Packet
  <2>3. \A i \in 1 .. Len(inbox[v]) : inbox[v][i].seq < lastSeq + 1
    BY <1>1, <2>2
  <2>4. OwnQueue(v)'
    BY <1>1, <2>1, <2>3 DEF OwnQueue
  <2>5. OwnDue(v)' \subseteq OwnDue(v) \cup {lastSeq'}
    BY <1>1, <2>1 DEF OwnDue
  <2> QED
    BY <1>1, <2>4, <2>5
<1>4. CASE v # u
  <2>1. step'[v] = step[v] /\ todo'[v] = todo[v] /\ msg'[v] = msg[v]
    BY <1>1, <1>2, <1>4
  <2>2. Making(v)' => Making(v)
    BY <2>1 DEF Making
  <2>3. OwnQueue(v)' /\ OwnDue(v)' \subseteq OwnDue(v)
    BY <1>1, <2>1, <2>2, QueueRests
  <2> QED
    BY <1>1, <2>3
<1> QED
  BY <1>3, <1>4

LEMMA QueueWhenRead ==
    ASSUME Fit, NEW u \in Users, ListActive(u) \/ SyncSnapshot(u) \/ SyncEvents(u),
           NEW v \in Users, OwnQueue(v)
    PROVE  OwnQueue(v)' /\ OwnDue(v)' \subseteq OwnDue(v)
<1>1. /\ msg \in [Users -> Packet \cup {<<>>}] /\ todo \in [Users -> SUBSET Users]
      /\ step \in [Users -> {"read", "list", "send", "sync", "sync_list"}] /\ HandlerFit(u)
      /\ inbox' = inbox
  BY DEF Fit, HandlersFit, ListActive, SyncSnapshot, SyncEvents
<1>2. CASE v = u
  <2>1. CASE ListActive(u)
    <3>1. Making(u) /\ msg'[u].seq = msg[u].seq
      BY <1>1, <2>1 DEF ListActive, HandlerFit, Fits, Packet, Making
    <3> QED
      BY <1>1, <1>2, <3>1, QueueRests
  <2>2. CASE SyncSnapshot(u) \/ SyncEvents(u)
    <3>1. step[u] \in {"sync", "sync_list"} /\ step'[u] \in {"send", "sync_list"}
      BY <1>1, <2>2 DEF SyncSnapshot, SyncEvents
    <3>2. msg'[u].kind = "sync"
      BY <1>1, <2>2 DEF SyncSnapshot, SyncEvents, HandlerFit, Fits, Packet
    <3>3. ~Making(v)'
      BY <1>2, <3>1, <3>2 DEF Making
    <3> QED
      BY <1>1, <3>3, QueueRests
  <2> QED
    BY <2>1, <2>2
<1>3. CASE v # u
  <2>1. step'[v] = step[v] /\ todo'[v] = todo[v] /\ msg'[v] = msg[v]
    BY <1>1, <1>3 DEF ListActive, SyncSnapshot, SyncEvents
  <2>2. Making(v)' => Making(v)
    BY <2>1 DEF Making
  <2> QED
    BY <1>1, <2>1, <2>2, QueueRests
<1> QED
  BY <1>2, <1>3

LEMMA QueueWhenSent ==
    ASSUME Fit, NEW u \in Users, NEW w \in Users, Send(u, w), NEW v \in Users, OwnQueue(v)
    PROVE  OwnQueue(v)' /\ OwnDue(v)' \subseteq OwnDue(v)
<1>1. /\ w \in todo[u] /\ step[u] = "send" /\ msg[u] \in Packet /\ msg[u].by = u
      /\ inbox' = [inbox EXCEPT ![w] = Append(@, msg[u])]
      /\ todo' = [todo EXCEPT ![u] = @ \ {w}]
      /\ step' = [step EXCEPT ![u] = IF todo[u] = {w} THEN "read" ELSE "send"]
      /\ msg' = [msg EXCEPT ![u] = IF todo[u] = {w} THEN <<>> ELSE msg[u]]
  BY Sends
<1>2. /\ msg \in [Users -> Packet \cup {<<>>}] /\ todo \in [Users -> SUBSET Users]
      /\ step \in [Users -> {"read", "list", "send", "sync", "sync_list"}]
      /\ inbox \in [Users -> Seq(Packet)]
  BY DEF Fit, HandlersFit, InboxesFit
<1>3. Making(v)' => Making(v) /\ msg'[v].seq = msg[v].seq
  <2>1. CASE v = u
    <3>1. step'[v] # "list" /\ todo'[v] = todo[v] \ {w}
          /\ msg'[v] = IF todo[u] = {w} THEN <<>> ELSE msg[u]
      BY <1>1, <1>2, <2>1
    <3> QED
      BY <2>1, <3>1 DEF Making
  <2>2. CASE v # u
    BY <1>1, <1>2, <2>2 DEF Making
  <2> QED
    BY <2>1, <2>2
<1>4. CASE v # w
  BY <1>1, <1>2, <1>3, <1>4, QueueRests
<1>5. CASE v = w
  <2> DEFINE m == msg[u]
             b == Append(inbox[v], m)
             k == Len(inbox[v]) + 1
  <2>1. /\ inbox'[v] = b /\ Len(b) = k /\ b[k] = m /\ Len(inbox[v]) \in Nat
        /\ \A i \in 1 .. Len(inbox[v]) : b[i] = inbox[v][i]
    BY <1>1, <1>2, <1>5, AppendSeq
  <2>2. ASSUME NEW i \in 1 .. Len(inbox'[v])
        PROVE  \/ i \in 1 .. Len(inbox[v]) /\ inbox'[v][i] = inbox[v][i]
               \/ i = k /\ inbox'[v][i] = m
    <3>1. i \in 1 .. Len(inbox[v]) \/ i = k
      BY <2>1
    <3> HIDE DEF b, k
    <3> QED
      BY <2>1, <3>1
  <2>3. Own(m, v) => v = u /\ Making(v) /\ ~Making(v)'
    <3>1. SUFFICES ASSUME Own(m, v) PROVE v = u /\ Making(v) /\ ~Making(v)'
      OBVIOUS
    <3>2. v = u /\ m.kind # "sync"
      BY <1>1, <3>1 DEF Own
    <3>3. Making(v)
      BY <1>1, <1>5, <3>2 DEF Making
    <3>4. step'[v] # "list" /\ v \notin todo'[v]
      BY <1>1, <1>2, <1>5, <3>2
    <3> QED
      BY <3>2, <3>3, <3>4 DEF Making
  <2> HIDE DEF m, b, k
  <2>4. OwnDue(v)' \subseteq OwnDue(v)
    <3>1. ASSUME NEW n \in OwnDue(v)' PROVE n \in OwnDue(v)
      <4>1. CASE Making(v)' /\ msg'[v].seq = n
        BY <1>3, <3>1, <4>1 DEF OwnDue
      <4>2. CASE \E i \in 1 .. Len(inbox'[v]) : Own(inbox'[v][i], v) /\ inbox'[v][i].seq = n
        <5>1. PICK i \in 1 .. Len(inbox'[v]) : Own(inbox'[v][i], v) /\ inbox'[v][i].seq = n
          BY <4>2
        <5>2. CASE i \in 1 .. Len(inbox[v]) /\ inbox'[v][i] = inbox[v][i]
          BY <3>1, <5>1, <5>2 DEF OwnDue
        <5>3. CASE inbox'[v][i] = m
          BY <2>3, <3>1, <5>1, <5>3 DEF OwnDue, m
        <5> QED
          BY <2>2, <5>2, <5>3
      <4> QED
        BY <3>1, <4>1, <4>2 DEF OwnDue
    <3> QED
      BY <3>1
  <2>5. ASSUME NEW i \in 1 .. Len(inbox'[v]), NEW j \in 1 .. Len(inbox'[v]), i < j,
               Own(inbox'[v][i], v), Own(inbox'[v][j], v)
        PROVE  inbox'[v][i].seq < inbox'[v][j].seq
    <3>1. i \in 1 .. Len(inbox[v]) /\ inbox'[v][i] = inbox[v][i]
      BY <2>1, <2>2, <2>5 DEF k
    <3>2. CASE j \in 1 .. Len(inbox[v]) /\ inbox'[v][j] = inbox[v][j]
      BY <2>5, <3>1, <3>2 DEF OwnQueue
    <3>3. CASE inbox'[v][j] = m
      BY <2>3, <2>5, <3>1, <3>3 DEF OwnQueue, m
    <3> QED
      BY <2>2, <3>2, <3>3
  <2>6. ASSUME Making(v)', NEW i \in 1 .. Len(inbox'[v]), Own(inbox'[v][i], v)
        PROVE  inbox'[v][i].seq < msg'[v].seq
    <3>1. i \in 1 .. Len(inbox[v]) /\ inbox'[v][i] = inbox[v][i]
      BY <2>2, <2>3, <2>6
    <3> QED
      BY <1>3, <2>6, <3>1 DEF OwnQueue
  <2> QED
    BY <2>4, <2>5, <2>6 DEF OwnQueue
<1> QED
  BY <1>4, <1>5

\* The numbers on the stacks
LEMMA StackTypes ==
    ASSUME Fit, NEW v \in Users
    PROVE  /\ drawn[v] \in Seq(Nat) /\ undone[v] \in Seq(Nat)
           /\ \A i \in 1 .. Len(drawn[v]) : drawn[v][i] \in Nat
           /\ \A i \in 1 .. Len(undone[v]) : undone[v][i] \in Nat
           /\ \A p \in redo[v] : p[2] \in Nat
<1>1. drawn[v] \in Seq(Nat) /\ undone[v] \in Seq(Nat) /\ redo[v] \in SUBSET (Nat \X Nat)
  BY DEF Fit, StacksFit
<1> QED
  BY <1>1

LEMMA StacksRest ==
    ASSUME Fit, NEW v \in Users, OldStacks(v), lastSeq' \in Nat, lastSeq <= lastSeq',
           \A n \in OwnDue(v)' : n \in OwnDue(v) \/ n > lastSeq,
           drawn'[v] = drawn[v], undone'[v] = undone[v], redo'[v] = redo[v]
    PROVE  OldStacks(v)'
<1>1. /\ lastSeq \in Nat /\ OwnDue(v)' \subseteq Nat
      /\ \A s \in Nat : Old(v, s) => s <= lastSeq' /\ \A n \in OwnDue(v)' : s < n
  <2>1. lastSeq \in Nat /\ OwnDue(v)' \subseteq Nat
    BY DEF Fit, ServerFit, OwnDue
  <2> QED
    BY <2>1 DEF Old
<1>2. \A p \in redo'[v] : p[2] \in Nat /\ Old(v, p[2])
  BY StackTypes DEF OldStacks
<1>3. /\ \A i \in 1 .. Len(drawn'[v]) : drawn'[v][i] \in Nat /\ Old(v, drawn'[v][i])
      /\ \A i \in 1 .. Len(undone'[v]) : undone'[v][i] \in Nat /\ Old(v, undone'[v][i])
  BY StackTypes DEF OldStacks
<1>4. /\ \A p \in redo'[v] : p[2] <= lastSeq' /\ \A n \in OwnDue(v)' : p[2] < n
      /\ \A i \in 1 .. Len(drawn'[v]) :
            drawn'[v][i] <= lastSeq' /\ \A n \in OwnDue(v)' : drawn'[v][i] < n
      /\ \A i \in 1 .. Len(undone'[v]) :
            undone'[v][i] <= lastSeq' /\ \A n \in OwnDue(v)' : undone'[v][i] < n
  BY <1>1, <1>2, <1>3
<1>5. /\ \A i, j \in 1 .. Len(drawn'[v]) : drawn'[v][i] = drawn'[v][j] => i = j
      /\ \A i, j \in 1 .. Len(undone'[v]) : undone'[v][i] = undone'[v][j] => i = j
      /\ \A i \in 1 .. Len(drawn'[v]) : \A j \in 1 .. Len(undone'[v]) : drawn'[v][i] # undone'[v][j]
  BY DEF OldStacks
<1> QED
  BY <1>4, <1>5 DEF OldStacks, Old

\* The buttons move numbers between the stacks.
LEMMA StacksWhenClicked ==
    ASSUME Fit, NEW u \in Users, ShapeCompleted(u) \/ OnUndoClicked(u) \/ OnRedoClicked(u),
           OldStacks(u), \A n \in OwnDue(u)' : n \in OwnDue(u)
    PROVE  OldStacks(u)'
<1>1. /\ lastSeq' = lastSeq /\ lastSeq \in Nat
      /\ drawn \in [Users -> Seq(Nat)] /\ undone \in [Users -> Seq(Nat)]
      /\ redo \in [Users -> SUBSET (Nat \X Nat)]
      /\ drawn[u] \in Seq(Nat) /\ undone[u] \in Seq(Nat)
  BY DEF ShapeCompleted, OnUndoClicked, OnRedoClicked, server, Fit, ServerFit, StacksFit
<1>2. \A s : Old(u, s) => s <= lastSeq' /\ \A n \in OwnDue(u)' : s < n
  BY <1>1 DEF Old
<1>3. CASE ShapeCompleted(u)
  <2>1. drawn' = drawn /\ undone'[u] = <<>> /\ redo'[u] = {}
    BY <1>1, <1>3 DEF ShapeCompleted
  <2> QED
    BY <1>2, <2>1 DEF OldStacks, Old
<1>4. CASE OnUndoClicked(u)
  <2> DEFINE target == drawn[u][Len(drawn[u])]
             k == Len(undone[u]) + 1
  <2>1. /\ drawn[u] # <<>> /\ redo' = redo
        /\ drawn'[u] = Rest(drawn[u]) /\ undone'[u] = Append(undone[u], target)
    BY <1>1, <1>4 DEF OnUndoClicked
  <2>2. /\ target \in Nat /\ Len(drawn[u]) \in 1 .. Len(drawn[u])
        /\ \A i \in 1 .. Len(drawn'[u]) :
              drawn'[u][i] = drawn[u][i] /\ i \in 1 .. Len(drawn[u]) /\ i # Len(drawn[u])
    BY <1>1, <2>1, RestSeq
  <2>3. Old(u, target)
    BY <2>2 DEF OldStacks
  <2>4. \A i \in 1 .. Len(drawn[u]) : i # Len(drawn[u]) => drawn[u][i] # target
    BY <2>2 DEF OldStacks
  <2>5. \A i \in 1 .. Len(undone[u]) : undone[u][i] # target
    BY <2>2 DEF OldStacks
  <2> HIDE DEF target
  <2>6. /\ Len(undone'[u]) = k /\ undone'[u][k] = target /\ Len(undone[u]) \in Nat
        /\ \A i \in 1 .. Len(undone[u]) : undone'[u][i] = undone[u][i]
    BY <1>1, <2>1, <2>2, AppendSeq
  <2>7. \A i \in 1 .. Len(undone'[u]) : \/ i \in 1 .. Len(undone[u]) /\ undone'[u][i] = undone[u][i]
                                        \/ i = k /\ undone'[u][i] = target
    <3>1. \A i \in 1 .. k : i \in 1 .. Len(undone[u]) \/ i = k
      BY <2>6
    <3> HIDE DEF k
    <3> QED
      BY <2>6, <3>1
  <2> HIDE DEF k
  <2>8. /\ \A p \in redo'[u] : Old(u, p[2])
        /\ \A i \in 1 .. Len(drawn'[u]) : Old(u, drawn'[u][i])
        /\ \A i \in 1 .. Len(undone'[u]) : Old(u, undone'[u][i])
    BY <2>1, <2>2, <2>3, <2>7 DEF OldStacks
  <2>9. \A i, j \in 1 .. Len(drawn'[u]) : drawn'[u][i] = drawn'[u][j] => i = j
    BY <2>2 DEF OldStacks
  <2>10. \A i, j \in 1 .. Len(undone'[u]) : undone'[u][i] = undone'[u][j] => i = j
    BY <2>5, <2>7 DEF OldStacks
  <2>11. \A i \in 1 .. Len(drawn'[u]) : \A j \in 1 .. Len(undone'[u]) : drawn'[u][i] # undone'[u][j]
    BY <2>2, <2>4, <2>7 DEF OldStacks
  <2> QED
    BY <1>2, <2>8, <2>9, <2>10, <2>11 DEF OldStacks, Old
<1>5. CASE OnRedoClicked(u)
  <2> DEFINE target == undone[u][Len(undone[u])]
             k == Len(drawn[u]) + 1
  <2>1. /\ undone[u] # <<>> /\ redo' = redo
        /\ undone'[u] = Rest(undone[u])
        /\ drawn'[u] = drawn[u] \/ drawn'[u] = Append(drawn[u], target)
    BY <1>1, <1>5 DEF OnRedoClicked
  <2>2. /\ target \in Nat /\ Len(undone[u]) \in 1 .. Len(undone[u])
        /\ \A i \in 1 .. Len(undone'[u]) :
              undone'[u][i] = undone[u][i] /\ i \in 1 .. Len(undone[u]) /\ i # Len(undone[u])
    <3>1. /\ target \in Nat /\ Len(undone[u]) \in 1 .. Len(undone[u])
          /\ \A i \in 1 .. Len(Rest(undone[u])) :
                Rest(undone[u])[i] = undone[u][i] /\ i \in 1 .. Len(undone[u]) /\ i # Len(undone[u])
      BY <1>1, <2>1, RestSeq
    <3> QED
      BY <2>1, <3>1
  <2>3. Old(u, target)
    BY <2>2 DEF OldStacks
  <2>4. \A i \in 1 .. Len(undone[u]) : i # Len(undone[u]) => undone[u][i] # target
    BY <2>2 DEF OldStacks
  <2>5. \A i \in 1 .. Len(drawn[u]) : drawn[u][i] # target
    BY <2>2 DEF OldStacks
  <2> HIDE DEF target
  <2>6. ASSUME NEW i \in 1 .. Len(drawn'[u])
        PROVE  \/ i \in 1 .. Len(drawn[u]) /\ drawn'[u][i] = drawn[u][i]
               \/ i = k /\ drawn'[u][i] = target
    <3>1. CASE drawn'[u] = drawn[u]
      BY <3>1
    <3>2. CASE drawn'[u] = Append(drawn[u], target)
      <4>1. /\ Len(drawn'[u]) = k /\ drawn'[u][k] = target /\ Len(drawn[u]) \in Nat
            /\ \A j \in 1 .. Len(drawn[u]) : drawn'[u][j] = drawn[u][j]
        BY <1>1, <2>2, <3>2, AppendSeq
      <4>2. i \in 1 .. Len(drawn[u]) \/ i = k
        BY <4>1
      <4> HIDE DEF k
      <4> QED
        BY <4>1, <4>2
    <3> QED
      BY <2>1, <3>1, <3>2
  <2> HIDE DEF k
  <2>8. /\ \A p \in redo'[u] : Old(u, p[2])
        /\ \A i \in 1 .. Len(drawn'[u]) : Old(u, drawn'[u][i])
        /\ \A i \in 1 .. Len(undone'[u]) : Old(u, undone'[u][i])
    BY <2>1, <2>2, <2>3, <2>6 DEF OldStacks
  <2>9. \A i, j \in 1 .. Len(undone'[u]) : undone'[u][i] = undone'[u][j] => i = j
    BY <2>2 DEF OldStacks
  <2>10. \A i, j \in 1 .. Len(drawn'[u]) : drawn'[u][i] = drawn'[u][j] => i = j
    BY <2>5, <2>6 DEF OldStacks
  <2>11. \A i \in 1 .. Len(drawn'[u]) : \A j \in 1 .. Len(undone'[u]) : drawn'[u][i] # undone'[u][j]
    BY <2>2, <2>4, <2>6 DEF OldStacks
  <2> QED
    BY <1>2, <2>8, <2>9, <2>10, <2>11 DEF OldStacks, Old
<1> QED
  BY <1>3, <1>4, <1>5

\* The queue when its head is handled: what is left of it comes later.
LEMMA QueueWhenHandled ==
    ASSUME Fit, NEW u \in Users, OwnQueue(u), inbox[u] # <<>>,
           inbox' = [inbox EXCEPT ![u] = Tail(@)], UNCHANGED handler
    PROVE  /\ OwnQueue(u)' /\ OwnDue(u)' \subseteq OwnDue(u)
           /\ Own(inbox[u][1], u) => inbox[u][1].seq \in OwnDue(u)
                                     /\ \A n \in OwnDue(u)' : inbox[u][1].seq < n
<1>1. /\ inbox[u][1] \in Packet /\ inbox[u] \in Seq(Packet) /\ inbox'[u] \in Seq(Packet)
      /\ 1 \in 1 .. Len(inbox[u])
      /\ \A i \in 1 .. Len(inbox'[u]) : i + 1 \in 1 .. Len(inbox[u]) /\ inbox'[u][i] = inbox[u][i + 1]
  BY Handles DEF Fit, InboxesFit
<1>2. Making(u)' <=> Making(u)
  BY DEF Making, handler
<1>3. OwnQueue(u)' /\ OwnDue(u)' \subseteq OwnDue(u)
  BY <1>1, <1>2, QueueShrinks DEF handler
<1>4. ASSUME Own(inbox[u][1], u)
      PROVE  inbox[u][1].seq \in OwnDue(u) /\ \A n \in OwnDue(u)' : inbox[u][1].seq < n
  <2>1. inbox[u][1].seq \in OwnDue(u)
    BY <1>1, <1>4 DEF OwnDue, Packet
  <2>2. ASSUME NEW n \in OwnDue(u)' PROVE inbox[u][1].seq < n
    <3>1. CASE Making(u) /\ msg[u].seq = n
      BY <1>1, <1>4, <3>1 DEF OwnQueue
    <3>2. CASE \E i \in 1 .. Len(inbox'[u]) : Own(inbox'[u][i], u) /\ inbox'[u][i].seq = n
      <4>1. PICK i \in 1 .. Len(inbox'[u]) : Own(inbox'[u][i], u) /\ inbox'[u][i].seq = n
        BY <3>2
      <4>2. 1 < i + 1
        OBVIOUS
      <4> QED
        BY <1>1, <1>4, <4>1, <4>2 DEF OwnQueue
    <3> QED
      BY <1>2, <2>2, <3>1, <3>2 DEF OwnDue, handler
  <2> QED
    BY <2>1, <2>2
<1> QED
  BY <1>3, <1>4

\* A broadcast puts the next number of u on a stack, or into the map.
LEMMA StacksWhenDrawn ==
    ASSUME Fit, NEW u \in Users, OwnQueue(u), OldStacks(u), OnDrawBroadcast(u)
    PROVE  OldStacks(u)'
<1> DEFINE m == inbox[u][1]
           k == Len(drawn[u]) + 1
<1>1. /\ lastSeq' = lastSeq /\ lastSeq \in Nat
      /\ drawn \in [Users -> Seq(Nat)] /\ undone \in [Users -> Seq(Nat)]
      /\ redo \in [Users -> SUBSET (Nat \X Nat)]
      /\ drawn[u] \in Seq(Nat) /\ undone' = undone
      /\ inbox[u] # <<>> /\ inbox' = [inbox EXCEPT ![u] = Tail(@)] /\ UNCHANGED handler
  BY DEF OnDrawBroadcast, server, Fit, ServerFit, StacksFit
<1>2. /\ OwnDue(u)' \subseteq OwnDue(u)
      /\ Own(m, u) => m.seq \in OwnDue(u) /\ \A n \in OwnDue(u)' : m.seq < n
  BY <1>1, QueueWhenHandled
<1>3. m \in Packet /\ m.seq \in Nat /\ m.seq <= lastSeq
  BY <1>1, Handles DEF Fits, Packet
<1> HIDE DEF m
<1>4. \A s : Old(u, s) => s <= lastSeq' /\ \A n \in OwnDue(u)' : s < n
  BY <1>1, <1>2 DEF Old
<1>5. CASE m.kind = "draw" /\ m.by = u
  <2>1. drawn'[u] = Append(drawn[u], m.seq) /\ redo' = redo
    BY <1>1, <1>5 DEF OnDrawBroadcast, m
  <2>2. m.seq \in OwnDue(u) /\ \A n \in OwnDue(u)' : m.seq < n
    BY <1>2, <1>5 DEF Own
  <2>3. /\ \A i \in 1 .. Len(drawn[u]) : drawn[u][i] # m.seq
        /\ \A i \in 1 .. Len(undone[u]) : undone[u][i] # m.seq
    BY <1>3, <2>2 DEF OldStacks, Old
  <2>4. ASSUME NEW i \in 1 .. Len(drawn'[u])
        PROVE  \/ i \in 1 .. Len(drawn[u]) /\ drawn'[u][i] = drawn[u][i]
               \/ i = k /\ drawn'[u][i] = m.seq
    <3>1. /\ Len(drawn'[u]) = k /\ drawn'[u][k] = m.seq /\ Len(drawn[u]) \in Nat
          /\ \A j \in 1 .. Len(drawn[u]) : drawn'[u][j] = drawn[u][j]
      BY <1>1, <1>3, <2>1, AppendSeq
    <3>2. i \in 1 .. Len(drawn[u]) \/ i = k
      BY <3>1
    <3> HIDE DEF k
    <3> QED
      BY <3>1, <3>2
  <2> HIDE DEF k
  <2>5. \A p \in redo'[u] : p[2] <= lastSeq' /\ \A n \in OwnDue(u)' : p[2] < n
    BY <1>4, <2>1 DEF OldStacks
  <2>6. \A i \in 1 .. Len(drawn'[u]) :
           drawn'[u][i] <= lastSeq' /\ \A n \in OwnDue(u)' : drawn'[u][i] < n
    BY <1>1, <1>3, <1>4, <2>2, <2>4 DEF OldStacks
  <2>7. \A i \in 1 .. Len(undone'[u]) :
           undone'[u][i] <= lastSeq' /\ \A n \in OwnDue(u)' : undone'[u][i] < n
    BY <1>1, <1>4 DEF OldStacks
  <2>8. \A i, j \in 1 .. Len(drawn'[u]) : drawn'[u][i] = drawn'[u][j] => i = j
    BY <2>3, <2>4 DEF OldStacks
  <2>9. \A i, j \in 1 .. Len(undone'[u]) : undone'[u][i] = undone'[u][j] => i = j
    BY <1>1 DEF OldStacks
  <2>10. ASSUME NEW i \in 1 .. Len(drawn'[u]), NEW j \in 1 .. Len(undone'[u])
         PROVE  drawn'[u][i] # undone'[u][j]
    BY <1>1, <2>3, <2>4 DEF OldStacks
  <2> QED
    BY <2>5, <2>6, <2>7, <2>8, <2>9, <2>10 DEF OldStacks, Old
<1>6. CASE m.kind # "draw" /\ m.by = u
  <2>1. m.kind = "undo" /\ drawn' = drawn
        /\ redo'[u] = {p \in redo[u] : p[1] # m.target} \cup {<<m.target, m.seq>>}
    BY <1>1, <1>6 DEF OnDrawBroadcast, RecordOwnUndo, m
  <2>2. \A n \in OwnDue(u)' : m.seq < n
    BY <1>2, <1>6, <2>1 DEF Own
  <2>3. \A p \in redo'[u] : p \in redo[u] \/ p[2] = m.seq
    BY <2>1
  <2>4. \A p \in redo'[u] : p[2] <= lastSeq' /\ \A n \in OwnDue(u)' : p[2] < n
    BY <1>1, <1>3, <1>4, <2>2, <2>3 DEF OldStacks
  <2> QED
    BY <1>1, <1>4, <2>1, <2>4 DEF OldStacks, Old
<1>7. CASE m.by # u
  <2>1. drawn' = drawn /\ redo' = redo
    BY <1>1, <1>7 DEF OnDrawBroadcast, m
  <2> QED
    BY <1>1, <1>4, <2>1 DEF OldStacks, Old
<1> QED
  BY <1>5, <1>6, <1>7

\* Empty stacks
LEMMA StacksWhenCleared ==
    ASSUME NEW v, drawn'[v] = <<>>, undone'[v] = <<>>, redo'[v] = {}
    PROVE  OldStacks(v)'
BY DEF OldStacks

LEMMA OwnOrderKept == ASSUME Fit, OwnOrder, [Next]_vars PROVE OwnOrder'
<1> SUFFICES ASSUME ~reused', NEW v \in Users PROVE OwnQueue(v)' /\ OldStacks(v)'
  BY DEF OwnOrder
<1>1. /\ msg \in [Users -> Packet \cup {<<>>}] /\ todo \in [Users -> SUBSET Users]
      /\ step \in [Users -> {"read", "list", "send", "sync", "sync_list"}]
      /\ inbox \in [Users -> Seq(Packet)] /\ lastSeq \in Nat
      /\ drawn \in [Users -> Seq(Nat)] /\ undone \in [Users -> Seq(Nat)]
      /\ redo \in [Users -> SUBSET (Nat \X Nat)]
  BY DEF Fit, HandlersFit, InboxesFit, ServerFit, StacksFit
<1>2. ASSUME ~reused PROVE OwnQueue(v) /\ OldStacks(v)
  BY <1>2 DEF OwnOrder
<1>3. ASSUME NEW u \in Users, ShapeCompleted(u) \/ OnUndoClicked(u) \/ OnRedoClicked(u)
      PROVE  OwnQueue(v)' /\ OldStacks(v)'
  <2>1. UNCHANGED <<handler, inbox, lastSeq, reused>>
    BY <1>3 DEF ShapeCompleted, OnUndoClicked, OnRedoClicked, history, server
  <2>2. OwnQueue(v) /\ OldStacks(v) /\ (Making(v)' <=> Making(v)) /\ msg' = msg
    BY <1>2, <2>1 DEF Making, handler
  <2>3. OwnQueue(v)' /\ OwnDue(v)' \subseteq OwnDue(v)
    BY <2>1, <2>2, QueueRests
  <2>4. CASE v = u
    BY <1>3, <2>2, <2>3, <2>4, StacksWhenClicked
  <2>5. CASE v # u
    <3>1. drawn'[v] = drawn[v] /\ undone'[v] = undone[v] /\ redo'[v] = redo[v]
      BY <1>1, <1>3, <2>5 DEF ShapeCompleted, OnUndoClicked, OnRedoClicked
    <3>2. lastSeq' \in Nat /\ lastSeq <= lastSeq'
      BY <1>1, <2>1
    <3> QED
      BY <2>2, <2>3, <3>1, <3>2, StacksRest
  <2> QED
    BY <2>4, <2>5
<1>4. ASSUME NEW u \in Users, AddEvent(u) PROVE OwnQueue(v)' /\ OldStacks(v)'
  <2>1. reused => reused'
    BY <1>4 DEF AddEvent
  <2>2. OwnQueue(v) /\ OldStacks(v) /\ UNCHANGED stacks
    BY <1>2, <1>4, <2>1 DEF AddEvent
  <2>3. /\ OwnQueue(v)' /\ OwnDue(v)' \subseteq OwnDue(v) \cup {lastSeq'} /\ lastSeq' = lastSeq + 1
    BY <1>4, <2>2, QueueWhenAdded
  <2>4. /\ lastSeq' \in Nat /\ lastSeq <= lastSeq'
        /\ \A n \in OwnDue(v)' : n \in OwnDue(v) \/ n > lastSeq
    BY <1>1, <2>3
  <2> QED
    BY <2>2, <2>3, <2>4, StacksRest DEF stacks
<1>5. ASSUME NEW u \in Users, \/ ListActive(u) \/ SyncSnapshot(u) \/ SyncEvents(u)
                              \/ \E w \in Users : Send(u, w)
      PROVE  OwnQueue(v)' /\ OldStacks(v)'
  <2>1. UNCHANGED <<lastSeq, stacks, reused>>
    BY <1>5 DEF ListActive, SyncSnapshot, SyncEvents, Send, history, server
  <2>2. OwnQueue(v) /\ OldStacks(v)
    BY <1>2, <2>1
  <2>3. OwnQueue(v)' /\ OwnDue(v)' \subseteq OwnDue(v)
    BY <1>5, <2>2, QueueWhenRead, QueueWhenSent
  <2>4. lastSeq' \in Nat /\ lastSeq <= lastSeq' /\ \A n \in OwnDue(v)' : n \in OwnDue(v) \/ n > lastSeq
    BY <1>1, <2>1, <2>3
  <2> QED
    BY <2>1, <2>2, <2>3, <2>4, StacksRest DEF stacks
<1>6. ASSUME NEW u \in Users, OnDrawBroadcast(u) \/ OnWhiteboardSync(u)
      PROVE  OwnQueue(v)' /\ OldStacks(v)'
  <2>1. /\ UNCHANGED <<handler, lastSeq, reused>> /\ inbox[u] # <<>>
        /\ inbox' = [inbox EXCEPT ![u] = Tail(@)]
    BY <1>6 DEF OnDrawBroadcast, OnWhiteboardSync, history, server
  <2>2. OwnQueue(v) /\ OldStacks(v) /\ (Making(v)' <=> Making(v)) /\ msg' = msg
    BY <1>2, <2>1 DEF Making, handler
  <2>3. CASE v = u
    <3>1. OwnQueue(v)'
      BY <2>1, <2>2, <2>3, QueueWhenHandled
    <3>2. CASE OnDrawBroadcast(u)
      BY <2>2, <2>3, <3>1, <3>2, StacksWhenDrawn
    <3>3. CASE OnWhiteboardSync(u)
      <4>1. drawn'[v] = <<>> /\ undone'[v] = <<>> /\ redo'[v] = {}
        BY <1>1, <2>3, <3>3 DEF OnWhiteboardSync, ClearStacks
      <4> QED
        BY <3>1, <4>1, StacksWhenCleared
    <3> QED
      BY <1>6, <3>2, <3>3
  <2>4. CASE v # u
    <3>1. OwnQueue(v)' /\ OwnDue(v)' \subseteq OwnDue(v)
      BY <1>1, <2>1, <2>2, <2>4, QueueRests
    <3>2. drawn'[v] = drawn[v] /\ undone'[v] = undone[v] /\ redo'[v] = redo[v]
      BY <1>1, <1>6, <2>4 DEF OnDrawBroadcast, OnWhiteboardSync, ClearStacks, RecordOwnUndo
    <3>3. lastSeq' \in Nat /\ lastSeq <= lastSeq' /\ \A n \in OwnDue(v)' : n \in OwnDue(v) \/ n > lastSeq
      BY <1>1, <2>1, <3>1
    <3> QED
      BY <2>2, <3>1, <3>2, <3>3, StacksRest
  <2> QED
    BY <2>3, <2>4
<1>7. ASSUME NEW u \in Users, JoinAgain(u) \/ Reconnect(u) \/ Restart(u)
      PROVE  OwnQueue(v)' /\ OldStacks(v)'
  <2>1. /\ \A w \in Users \ {u} : \/ step'[w] = step[w] /\ todo'[w] = todo[w]
                                  \/ /\ step[w] = "send" /\ todo'[w] = todo[w] \ {u}
                                     /\ step'[w] = IF todo[w] = {u} THEN "read" ELSE "send"
        /\ step'[u] = "sync" /\ todo'[u] = {}
        /\ \A w \in Users \ {u} : msg'[w] = msg[w]
    BY <1>7, Joins
  <2>2. UNCHANGED <<server, reused>>
    BY <1>7, Joins
  <2>3. OwnQueue(v) /\ OldStacks(v) /\ lastSeq' = lastSeq
    BY <1>2, <2>2 DEF server
  <2>4. PICK n \in 0 .. Len(inbox[u]) : inbox' = [inbox EXCEPT ![u] = SubSeq(@, 1, n)]
    BY <1>7, Joins
  <2>5. Making(v)' => Making(v) /\ msg'[v].seq = msg[v].seq
    <3>1. CASE v = u
      BY <2>1, <3>1 DEF Making
    <3>2. CASE v # u
      BY <2>1, <3>2 DEF Making
    <3> QED
      BY <3>1, <3>2
  <2>6. OwnQueue(v)' /\ OwnDue(v)' \subseteq OwnDue(v)
    <3>1. CASE v = u
      <4>1. /\ inbox[v] \in Seq(Packet) /\ inbox'[v] \in Seq(Packet) /\ 0 \in Nat
            /\ \A i \in 1 .. Len(inbox'[v]) :
                  i + 0 \in 1 .. Len(inbox[v]) /\ inbox'[v][i] = inbox[v][i + 0]
        <5>1. /\ SubSeq(inbox[u], 1, n) \in Seq(Packet) /\ Len(SubSeq(inbox[u], 1, n)) = n
              /\ \A i \in 1 .. n : SubSeq(inbox[u], 1, n)[i] = inbox[u][i] /\ i \in 1 .. Len(inbox[u])
          BY <1>1, PrefixSeq
        <5>2. inbox'[v] = SubSeq(inbox[u], 1, n) /\ inbox[v] = inbox[u]
          BY <1>1, <2>4, <3>1
        <5>3. \A i \in 1 .. n : i + 0 = i
          OBVIOUS
        <5> QED
          BY <1>1, <5>1, <5>2, <5>3
      <4> QED
        BY <2>3, <2>5, <4>1, QueueShrinks
    <3>2. CASE v # u
      BY <1>1, <2>3, <2>4, <2>5, <3>2, QueueRests
    <3> QED
      BY <3>1, <3>2
  <2>7. lastSeq' \in Nat /\ lastSeq <= lastSeq' /\ \A k \in OwnDue(v)' : k \in OwnDue(v) \/ k > lastSeq
    BY <1>1, <2>3, <2>6
  <2>8. CASE Restart(u) /\ v = u
    <3>1. drawn'[v] = <<>> /\ undone'[v] = <<>> /\ redo'[v] = {}
      BY <1>1, <2>8 DEF Restart, ClearAll, ClearStacks
    <3> QED
      BY <2>6, <3>1, StacksWhenCleared
  <2>9. CASE ~(Restart(u) /\ v = u)
    <3>1. drawn'[v] = drawn[v] /\ undone'[v] = undone[v] /\ redo'[v] = redo[v]
      BY <1>1, <1>7, <2>9 DEF JoinAgain, Reconnect, Restart, ClearAll, ClearStacks, stacks
    <3> QED
      BY <2>3, <2>6, <2>7, <3>1, StacksRest
  <2> QED
    BY <2>8, <2>9
<1>8. CASE TakeSnapshot \/ UNCHANGED vars
  <2>1. UNCHANGED <<handler, inbox, lastSeq, stacks, reused>>
    BY <1>8 DEF TakeSnapshot, vars, history, server
  <2>2. OwnQueue(v) /\ OldStacks(v) /\ (Making(v)' <=> Making(v)) /\ msg' = msg
    BY <1>2, <2>1 DEF Making, handler
  <2>3. OwnQueue(v)' /\ OwnDue(v)' \subseteq OwnDue(v)
    BY <2>1, <2>2, QueueRests
  <2>4. lastSeq' \in Nat /\ lastSeq <= lastSeq'
    BY <1>1, <2>1
  <2> QED
    BY <2>1, <2>2, <2>3, <2>4, StacksRest DEF stacks
<1>9. ASSUME NEW u \in Users, Turns(u) PROVE OwnQueue(v)' /\ OldStacks(v)'
  <2>1. UNCHANGED <<handler, inbox, lastSeq, reused>>
    BY <1>9, Turned DEF history, server
  <2>2. OwnQueue(v) /\ OldStacks(v) /\ (Making(v)' <=> Making(v)) /\ msg' = msg
    BY <1>2, <2>1 DEF Making, handler
  <2>3. OwnQueue(v)' /\ OwnDue(v)' \subseteq OwnDue(v)
    BY <2>1, <2>2, QueueRests
  <2>4. CASE v = u
    BY <1>9, <2>3, <2>4, Turned, StacksWhenCleared
  <2>5. CASE v # u
    <3>1. drawn'[v] = drawn[v] /\ undone'[v] = undone[v] /\ redo'[v] = redo[v]
      BY <1>9, <2>5, Turned
    <3>2. lastSeq' \in Nat /\ lastSeq <= lastSeq'
      BY <1>1, <2>1
    <3> QED
      BY <2>2, <2>3, <3>1, <3>2, StacksRest
  <2> QED
    BY <2>4, <2>5
<1>10. ASSUME NEW u \in Users, PacketDropped(u) PROVE OwnQueue(v)' /\ OldStacks(v)'
  <2>1. /\ UNCHANGED <<handler, lastSeq, stacks, reused>> /\ inbox[u] # <<>>
        /\ inbox' = [inbox EXCEPT ![u] = Tail(@)]
    BY <1>10 DEF PacketDropped, history, server
  <2>2. OwnQueue(v) /\ OldStacks(v) /\ (Making(v)' <=> Making(v)) /\ msg' = msg
    BY <1>2, <2>1 DEF Making, handler
  <2>3. OwnQueue(v)' /\ OwnDue(v)' \subseteq OwnDue(v)
    <3>1. CASE v = u
      BY <2>1, <2>2, <3>1, QueueWhenHandled
    <3>2. CASE v # u
      BY <1>1, <2>1, <2>2, <3>2, QueueRests
    <3> QED
      BY <3>1, <3>2
  <2>4. lastSeq' \in Nat /\ lastSeq <= lastSeq' /\ \A n \in OwnDue(v)' : n \in OwnDue(v) \/ n > lastSeq
    BY <1>1, <2>1, <2>3
  <2> QED
    BY <2>1, <2>2, <2>3, <2>4, StacksRest DEF stacks
<1> QED
  BY <1>3, <1>4, <1>5, <1>6, <1>7, <1>8, <1>9, <1>10 DEF Next, Turns

LEMMA OwnOrderInit == Init => OwnOrder
BY DEF Init, OwnOrder, OwnQueue, OldStacks, Own, Making

LEMMA TypesHold == ASSUME Fit, WindowFit, Counted, OwnOrder PROVE TypeOK
<1>1. lastSeq \in 0 .. MaxRequests
  <2>1. Cardinality(Pending) \in Nat /\ lastSeq \in Nat /\ requests \in Nat /\ requests <= MaxRequests
    BY PendingFinite DEF Fit, ServerFit, ClicksFit
  <2>2. Cardinality(Pending) + lastSeq <= requests
    BY DEF Counted
  <2> QED
    BY <2>1, <2>2, BoardAssumption
<1>2. /\ \A e \in events : e.seq \in 1 .. lastSeq /\ e.target \in 0 .. (e.seq - 1)
      /\ \A e, f \in events : e.seq = f.seq => e = f
  BY DEF Fit, ServerFit, Event, OnePerSeq
<1>3. step \in [Users -> {"read", "list", "send", "sync", "sync_list"}]
  BY DEF Fit, HandlersFit
<1>4. ASSUME NEW u \in Users
      PROVE  /\ step[u] # "read" => msg[u] \in Packet
             /\ todo[u] # {} => step[u] = "send"
             /\ \A i \in 1 .. Len(out[u]) : out[u][i] \in Request
             /\ \A i \in 1 .. Len(inbox[u]) : inbox[u][i] \in Packet
             /\ \A x, y \in items[u] : x.seq = y.seq => x = y
             /\ \A p, q \in redo[u] : p[1] = q[1] => p = q
             /\ reused \/ NoDuplicates(drawn[u] \o undone[u])
  <2>1. (step[u] # "read" => msg[u] \in Packet) /\ (todo[u] # {} => step[u] = "send")
    BY DEF Fit, HandlersFit, HandlerFit, Fits
  <2>2. out[u] \in Seq(Request) /\ inbox[u] \in Seq(Packet)
    BY DEF Fit, ClicksFit, InboxesFit
  <2>3. /\ \A x, y \in items[u] : x.seq = y.seq => x = y
        /\ \A p, q \in redo[u] : p[1] = q[1] => p = q
    BY DEF Fit, CanvasFit, StacksFit, OnePerSeq
  <2>4. ASSUME ~reused PROVE NoDuplicates(drawn[u] \o undone[u])
    <3> DEFINE s == drawn[u] \o undone[u]
    <3>1. OldStacks(u) /\ drawn[u] \in Seq(Nat) /\ undone[u] \in Seq(Nat)
      BY <2>4, StackTypes DEF OwnOrder
    <3>2. /\ DOMAIN s = 1 .. Len(drawn[u]) + Len(undone[u])
          /\ Len(drawn[u]) \in Nat /\ Len(undone[u]) \in Nat
          /\ \A i \in 1 .. Len(drawn[u]) + Len(undone[u]) :
                s[i] = IF i <= Len(drawn[u]) THEN drawn[u][i] ELSE undone[u][i - Len(drawn[u])]
      <4> DEFINE a == drawn[u]
                 b == undone[u]
      <4>1. a \in Seq(Nat) /\ b \in Seq(Nat)
        BY <3>1
      <4> HIDE DEF a, b
      <4>2. /\ DOMAIN (a \o b) = 1 .. Len(a) + Len(b) /\ Len(a) \in Nat /\ Len(b) \in Nat
            /\ \A i \in 1 .. Len(a) + Len(b) : (a \o b)[i] = IF i <= Len(a) THEN a[i] ELSE b[i - Len(a)]
        BY <4>1
      <4> QED
        BY <4>2 DEF a, b
    <3> HIDE DEF s
    <3>3. ASSUME NEW i \in DOMAIN s
          PROVE  \/ i \in 1 .. Len(drawn[u]) /\ s[i] = drawn[u][i]
                 \/ /\ i - Len(drawn[u]) \in 1 .. Len(undone[u])
                    /\ s[i] = undone[u][i - Len(drawn[u])]
      <4>0. i \in 1 .. Len(drawn[u]) + Len(undone[u])
        BY <3>2, Zenon
      <4> DEFINE a == Len(drawn[u])
                 b == Len(undone[u])
      <4>1. a \in Nat /\ b \in Nat /\ i \in 1 .. a + b
        BY <3>2, <4>0
      <4>2. s[i] = IF i <= a THEN drawn[u][i] ELSE undone[u][i - a]
        BY <3>2, <4>0, Zenon
      <4> HIDE DEF a, b
      <4>3. (i <= a /\ i \in 1 .. a) \/ (~(i <= a) /\ i - a \in 1 .. b)
        BY <4>1
      <4>4. (i \in 1 .. a /\ s[i] = drawn[u][i]) \/ (i - a \in 1 .. b /\ s[i] = undone[u][i - a])
        BY <4>2, <4>3
      <4> QED
        BY <4>4 DEF a, b
    <3>4. ASSUME NEW i \in DOMAIN s, NEW j \in DOMAIN s, s[i] = s[j] PROVE i = j
      <4>1. \A k \in 1 .. Len(drawn[u]) : \A l \in 1 .. Len(undone[u]) : drawn[u][k] # undone[u][l]
        BY <3>1 DEF OldStacks
      <4>2. CASE i \in 1 .. Len(drawn[u]) /\ s[i] = drawn[u][i]
        BY <3>1, <3>3, <3>4, <4>1, <4>2 DEF OldStacks
      <4>3. CASE /\ i - Len(drawn[u]) \in 1 .. Len(undone[u])
                 /\ s[i] = undone[u][i - Len(drawn[u])]
        <5>1. /\ j - Len(drawn[u]) \in 1 .. Len(undone[u])
              /\ s[j] = undone[u][j - Len(drawn[u])]
          BY <3>3, <3>4, <4>1, <4>3
        <5>2. i - Len(drawn[u]) = j - Len(drawn[u])
          BY <3>1, <3>4, <4>3, <5>1 DEF OldStacks
        <5> QED
          BY <3>2, <5>2
      <4> QED
        BY <3>3, <4>2, <4>3
    <3> QED
      BY <3>4 DEF NoDuplicates, s
  <2> QED
    BY <2>1, <2>2, <2>3, <2>4
<1> QED
  BY <1>1, <1>2, <1>3, <1>4 DEF TypeOK, WindowFit

\* The state stays well formed, and no drawing is on the stacks of a user
\* twice: mouseReleaseEvent and the buttons move a number between them once,
\* and on_draw_broadcast adds one that is larger than those there.
THEOREM BoardViewTypeCorrect == Spec => []TypeOK
<1> DEFINE Inv == Fit /\ WindowFit /\ Counted /\ OwnOrder
<1>1. Init => Inv
  BY FitInit, WindowInit, CountedInit, OwnOrderInit
<1>2. Inv /\ [Next]_vars => Inv'
  BY FitKept, WindowKept, CountedKept, OwnOrderKept
<1>3. Inv => TypeOK
  BY TypesHold
<1> HIDE DEF Inv
<1> QED
  BY <1>1, <1>2, <1>3, PTL DEF Spec

-----------------------------------------------------------------------------
(* A drawing that can be redone has the number of its last undo in the map,  *)
(* or that number is on its way.                                             *)

OwnUndo(m, u, t) == m.by = u /\ m.kind = "undo" /\ m.target = t
LastUndo(u, t, n) == \A e \in events : e.by = u /\ e.target = t => e.seq <= n

\* A sync is on its way to u: it will clear the stacks.
SyncDue(u) ==
    \/ step[u] \in {"sync", "sync_list"}
    \/ u \in todo[u] /\ msg[u].kind = "sync"

Told(u, t) ==
    \/ SyncDue(u)
    \/ \E i \in 1 .. Len(inbox[u]) : inbox[u][i].kind = "sync"
    \/ \E i \in 1 .. Len(out[u]) : out[u][i].target = t
    \/ Making(u) /\ OwnUndo(msg[u], u, t) /\ LastUndo(u, t, msg[u].seq)
    \/ \E i \in 1 .. Len(inbox[u]) : OwnUndo(inbox[u][i], u, t) /\ LastUndo(u, t, inbox[u][i].seq)
    \/ \E p \in redo[u] : p[1] = t /\ LastUndo(u, t, p[2])

Redoable == ~reused => \A u \in Users : \A i \in 1 .. Len(undone[u]) : Told(u, undone[u][i])

\* v goes on being told when nothing of that is taken away.
LEMMA ToldRests ==
    ASSUME NEW v, NEW t, Told(v, t),
           \A e \in events' : e \in events \/ e.by # v \/ e.target # t,
           SyncDue(v) => SyncDue(v)', inbox'[v] = inbox[v], redo'[v] = redo[v],
           \A i \in 1 .. Len(out[v]) : \E j \in 1 .. Len(out'[v]) : out'[v][j] = out[v][i],
           Making(v) => /\ Making(v)' /\ msg'[v].by = msg[v].by /\ msg'[v].kind = msg[v].kind
                        /\ msg'[v].target = msg[v].target /\ msg'[v].seq = msg[v].seq
    PROVE  Told(v, t)'
<1>1. \A n : LastUndo(v, t, n) => \A e \in events' : e.by = v /\ e.target = t => e.seq <= n
  BY DEF LastUndo
<1>2. CASE \E i \in 1 .. Len(out[v]) : out[v][i].target = t
  BY <1>2 DEF Told
<1>3. CASE Making(v) /\ OwnUndo(msg[v], v, t) /\ LastUndo(v, t, msg[v].seq)
  BY <1>1, <1>3 DEF Told, OwnUndo, LastUndo
<1>4. CASE \E i \in 1 .. Len(inbox[v]) : OwnUndo(inbox[v][i], v, t) /\ LastUndo(v, t, inbox[v][i].seq)
  BY <1>1, <1>4 DEF Told, OwnUndo, LastUndo
<1>5. CASE \E p \in redo[v] : p[1] = t /\ LastUndo(v, t, p[2])
  BY <1>1, <1>5 DEF Told, LastUndo
<1>6. CASE SyncDue(v) \/ \E i \in 1 .. Len(inbox[v]) : inbox[v][i].kind = "sync"
  BY <1>6 DEF Told
<1> QED
  BY <1>2, <1>3, <1>4, <1>5, <1>6 DEF Told

\* The number of the undo that is asked for is the largest there is.
LEMMA ToldWhenAdded ==
    ASSUME Fit, NEW u \in Users, AddEvent(u), ~reused', NEW v \in Users, NEW t \in Nat \ {0}, Told(v, t)
    PROVE  Told(v, t)'
<1> DEFINE r == out[u][1]
           m == NewPacket(u, r)
<1>1. /\ step[u] = "read" /\ todo[u] = {} /\ out[u] # <<>> /\ EventSeq(u, r) = lastSeq + 1
      /\ events' = events \cup {NewEvent(u, r)}
      /\ msg' = [msg EXCEPT ![u] = m]
      /\ step' = [step EXCEPT ![u] = IF r.target = 0 THEN "send" ELSE "list"]
      /\ todo' = [todo EXCEPT ![u] = IF r.target = 0 THEN Users ELSE {}]
      /\ out' = [out EXCEPT ![u] = Tail(@)] /\ lastSeq \in Nat
      /\ UNCHANGED <<inbox, stacks>>
  BY Adds
<1>2. /\ msg \in [Users -> Packet \cup {<<>>}] /\ todo \in [Users -> SUBSET Users]
      /\ step \in [Users -> {"read", "list", "send", "sync", "sync_list"}]
      /\ out \in [Users -> Seq(Request)] /\ out[u] \in Seq(Request)
      /\ \A e \in events : e.seq \in Nat /\ e.seq <= lastSeq
  BY DEF Fit, HandlersFit, ClicksFit, ServerFit, Event
<1>3. CASE v # u
  <2>1. /\ SyncDue(v) => SyncDue(v)'
        /\ Making(v) => Making(v)' /\ msg'[v] = msg[v]
        /\ out'[v] = out[v]
    BY <1>1, <1>2, <1>3 DEF SyncDue, Making
  <2>2. \A e \in events' : e \in events \/ e.by # v \/ e.target # t
    BY <1>1, <1>3 DEF NewEvent
  <2> QED
    BY <1>1, <2>1, <2>2, ToldRests DEF stacks
<1>4. CASE v = u /\ r.target = t
  <2>1. /\ msg'[v].by = v /\ msg'[v].kind = "undo" /\ msg'[v].target = t /\ msg'[v].seq = lastSeq + 1
        /\ step'[v] = "list"
    BY <1>1, <1>2, <1>4 DEF NewPacket
  <2>2. \A e \in events' : e.seq <= lastSeq + 1
    BY <1>1, <1>2 DEF NewEvent
  <2> QED
    BY <2>1, <2>2 DEF Told, Making, OwnUndo, LastUndo
<1>5. CASE v = u /\ r.target # t
  <2>1. \A e \in events' : e \in events \/ e.target # t
    BY <1>1, <1>5 DEF NewEvent
  <2>2. ~SyncDue(v) /\ ~Making(v)
    BY <1>1, <1>5 DEF SyncDue, Making
  <2>3. \A n : LastUndo(v, t, n) => \A e \in events' : e.by = v /\ e.target = t => e.seq <= n
    BY <2>1 DEF LastUndo
  <2>4. CASE \E i \in 1 .. Len(out[v]) : out[v][i].target = t
    <3>1. PICK i \in 1 .. Len(out[v]) : out[v][i].target = t
      BY <2>4
    <3>2. /\ Len(Tail(out[u])) = Len(out[u]) - 1 /\ Len(out[u]) \in Nat
          /\ \A j \in 1 .. Len(Tail(out[u])) : Tail(out[u])[j] = out[u][j + 1]
      BY <1>1, <1>2, TailSeq
    <3>3. i # 1 /\ i \in 1 .. Len(out[u])
      BY <1>5, <3>1
    <3>4. i - 1 \in 1 .. Len(Tail(out[u])) /\ (i - 1) + 1 = i
      BY <3>2, <3>3
    <3>5. out'[v] = Tail(out[u]) /\ out'[v][i - 1] = out[v][i]
      BY <1>1, <1>2, <1>5, <3>2, <3>4
    <3> QED
      BY <3>1, <3>4, <3>5 DEF Told
  <2>5. CASE \E i \in 1 .. Len(inbox[v]) : inbox[v][i].kind = "sync"
    BY <1>1, <2>5 DEF Told
  <2>6. CASE \E i \in 1 .. Len(inbox[v]) : OwnUndo(inbox[v][i], v, t) /\ LastUndo(v, t, inbox[v][i].seq)
    BY <1>1, <2>3, <2>6 DEF Told, OwnUndo, LastUndo
  <2>7. CASE \E p \in redo[v] : p[1] = t /\ LastUndo(v, t, p[2])
    BY <1>1, <2>3, <2>7 DEF Told, LastUndo, stacks
  <2> QED
    BY <2>2, <2>4, <2>5, <2>6, <2>7 DEF Told
<1> QED
  BY <1>3, <1>4, <1>5

LEMMA ToldWhenRead ==
    ASSUME Fit, NEW u \in Users, ListActive(u) \/ SyncSnapshot(u) \/ SyncEvents(u),
           NEW v \in Users, NEW t, Told(v, t)
    PROVE  Told(v, t)'
<1>1. /\ msg \in [Users -> Packet \cup {<<>>}] /\ todo \in [Users -> SUBSET Users]
      /\ step \in [Users -> {"read", "list", "send", "sync", "sync_list"}] /\ HandlerFit(u)
      /\ UNCHANGED <<inbox, redo, out, events>>
  BY DEF Fit, HandlersFit, ListActive, SyncSnapshot, SyncEvents, stacks, server, input
<1>2. CASE v # u
  <2>1. step'[v] = step[v] /\ todo'[v] = todo[v] /\ msg'[v] = msg[v]
    BY <1>1, <1>2 DEF ListActive, SyncSnapshot, SyncEvents
  <2>2. (SyncDue(v) => SyncDue(v)') /\ (Making(v) => Making(v)' /\ msg'[v] = msg[v])
    BY <2>1 DEF SyncDue, Making
  <2> QED
    BY <1>1, <2>2, ToldRests
<1>3. CASE v = u /\ ListActive(u)
  <2>1. /\ msg[u].kind = "undo" /\ step'[u] = "send" /\ todo'[u] = Users /\ msg[u] \in Packet
        /\ step[u] = "list" /\ todo[u] = {}
    BY <1>1, <1>3 DEF ListActive, HandlerFit, Fits
  <2>2. msg'[u].by = msg[u].by /\ msg'[u].kind = msg[u].kind
        /\ msg'[u].target = msg[u].target /\ msg'[u].seq = msg[u].seq
    BY <1>1, <1>3, <2>1 DEF ListActive, Packet
  <2>3. ~SyncDue(v) /\ Making(v)'
    BY <1>3, <2>1, <2>2 DEF SyncDue, Making
  <2> QED
    BY <1>1, <1>3, <2>2, <2>3, ToldRests
<1>4. CASE v = u /\ (SyncSnapshot(u) \/ SyncEvents(u))
  <2>1. CASE SyncSnapshot(u)
    <3>1. step'[v] = "sync_list"
      BY <1>1, <1>4, <2>1 DEF SyncSnapshot
    <3> QED
      BY <3>1 DEF Told, SyncDue
  <2>2. CASE SyncEvents(u)
    <3>1. msg[u].kind = "sync" /\ msg[u] \in Packet
      BY <1>1, <2>2 DEF SyncEvents, HandlerFit, Fits
    <3>2. msg'[v].kind = "sync" /\ todo'[v] = {v}
      BY <1>1, <1>4, <2>2, <3>1 DEF SyncEvents, Packet
    <3> QED
      BY <3>2 DEF Told, SyncDue
  <2> QED
    BY <1>4, <2>1, <2>2
<1> QED
  BY <1>2, <1>3, <1>4

LEMMA ToldWhenSent ==
    ASSUME Fit, NEW u \in Users, NEW w \in Users, Send(u, w), NEW v \in Users, NEW t, Told(v, t)
    PROVE  Told(v, t)'
<1>1. /\ w \in todo[u] /\ step[u] = "send" /\ msg[u] \in Packet /\ msg[u].by = u
      /\ inbox' = [inbox EXCEPT ![w] = Append(@, msg[u])]
      /\ todo' = [todo EXCEPT ![u] = @ \ {w}]
      /\ step' = [step EXCEPT ![u] = IF todo[u] = {w} THEN "read" ELSE "send"]
      /\ msg' = [msg EXCEPT ![u] = IF todo[u] = {w} THEN <<>> ELSE msg[u]]
  BY Sends
<1>2. /\ msg \in [Users -> Packet \cup {<<>>}] /\ todo \in [Users -> SUBSET Users]
      /\ step \in [Users -> {"read", "list", "send", "sync", "sync_list"}]
      /\ inbox \in [Users -> Seq(Packet)] /\ UNCHANGED <<redo, out, events>>
  BY DEF Fit, HandlersFit, InboxesFit, Send, server, stacks, input
<1>3. v # u \/ v # w => /\ SyncDue(v) => SyncDue(v)'
                        /\ Making(v) => Making(v)' /\ msg'[v] = msg[v]
  <2>1. CASE v # u
    BY <1>1, <1>2, <2>1 DEF SyncDue, Making
  <2>2. CASE v = u /\ v # w
    BY <1>1, <1>2, <2>2 DEF SyncDue, Making
  <2> QED
    BY <2>1, <2>2
<1>4. CASE v # w
  <2>1. inbox'[v] = inbox[v]
    BY <1>1, <1>2, <1>4
  <2> QED
    BY <1>2, <1>3, <1>4, <2>1, ToldRests
<1>5. CASE v = w
  <2> DEFINE k == Len(inbox[v]) + 1
  <2>1. /\ k \in 1 .. Len(inbox'[v]) /\ inbox'[v][k] = msg[u]
        /\ \A i \in 1 .. Len(inbox[v]) : i \in 1 .. Len(inbox'[v]) /\ inbox'[v][i] = inbox[v][i]
    <3>1. inbox'[v] = Append(inbox[v], msg[u]) /\ inbox[v] \in Seq(Packet)
      BY <1>1, <1>2, <1>5
    <3>2. Len(inbox'[v]) = k /\ inbox'[v][k] = msg[u] /\ Len(inbox[v]) \in Nat
          /\ \A i \in 1 .. Len(inbox[v]) : inbox'[v][i] = inbox[v][i]
      BY <1>1, <3>1, AppendSeq
    <3> QED
      BY <3>2
  <2> HIDE DEF k
  <2>2. CASE SyncDue(v)
    <3>1. CASE v = u
      <4>1. msg[u].kind = "sync"
        BY <1>1, <2>2, <3>1 DEF SyncDue
      <4> QED
        BY <2>1, <4>1 DEF Told
    <3>2. CASE v # u
      BY <1>3, <2>2, <3>2 DEF Told
    <3> QED
      BY <3>1, <3>2
  <2>3. CASE Making(v) /\ OwnUndo(msg[v], v, t) /\ LastUndo(v, t, msg[v].seq)
    <3>1. CASE v = u
      <4>1. OwnUndo(inbox'[v][k], v, t) /\ LastUndo(v, t, inbox'[v][k].seq)
        BY <2>1, <2>3, <3>1
      <4> QED
        BY <1>2, <2>1, <4>1 DEF Told, OwnUndo, LastUndo
    <3>2. CASE v # u
      BY <1>2, <1>3, <2>3, <3>2 DEF Told, OwnUndo, LastUndo
    <3> QED
      BY <3>1, <3>2
  <2>4. CASE \E i \in 1 .. Len(inbox[v]) : inbox[v][i].kind = "sync"
    BY <2>1, <2>4 DEF Told
  <2>5. CASE \E i \in 1 .. Len(inbox[v]) : OwnUndo(inbox[v][i], v, t) /\ LastUndo(v, t, inbox[v][i].seq)
    BY <1>2, <2>1, <2>5 DEF Told, OwnUndo, LastUndo
  <2>6. CASE \/ \E i \in 1 .. Len(out[v]) : out[v][i].target = t
             \/ \E p \in redo[v] : p[1] = t /\ LastUndo(v, t, p[2])
    BY <1>2, <2>6 DEF Told, LastUndo
  <2> QED
    BY <2>2, <2>3, <2>4, <2>5, <2>6 DEF Told
<1> QED
  BY <1>4, <1>5

\* An undo of t that is handled is u's last undo of t, if the one before was.
LEMMA ToldWhenDrawn ==
    ASSUME Fit, NEW u \in Users, OwnQueue(u), OldStacks(u), OnDrawBroadcast(u), NEW t, Told(u, t)
    PROVE  Told(u, t)'
<1> DEFINE m == inbox[u][1]
<1>1. /\ inbox[u] # <<>> /\ inbox' = [inbox EXCEPT ![u] = Tail(@)] /\ UNCHANGED handler
      /\ UNCHANGED <<out, events>> /\ inbox \in [Users -> Seq(Packet)] /\ m.kind # "sync"
      /\ redo \in [Users -> SUBSET (Nat \X Nat)]
      /\ m.kind = "undo" /\ m.by = u =>
            redo'[u] = {p \in redo[u] : p[1] # m.target} \cup {<<m.target, m.seq>>}
      /\ ~(m.kind = "undo" /\ m.by = u) => redo'[u] = redo[u]
  BY DEF OnDrawBroadcast, RecordOwnUndo, Fit, InboxesFit, StacksFit, server
<1>2. /\ m \in Packet /\ m.seq \in Nat
      /\ Len(Tail(inbox[u])) = Len(inbox[u]) - 1 /\ Len(inbox[u]) \in Nat \ {0}
      /\ \A i \in 1 .. Len(Tail(inbox[u])) : Tail(inbox[u])[i] = inbox[u][i + 1]
  BY <1>1, Handles DEF Packet
<1>3. inbox'[u] = Tail(inbox[u])
  BY <1>1
<1>4. ASSUME NEW i \in 1 .. Len(inbox[u]), i # 1
      PROVE  \E j \in 1 .. Len(inbox'[u]) : inbox'[u][j] = inbox[u][i]
  <2>1. i - 1 \in 1 .. Len(Tail(inbox[u])) /\ (i - 1) + 1 = i
    BY <1>2, <1>4
  <2>2. inbox'[u][i - 1] = inbox[u][i]
    BY <1>2, <1>3, <2>1
  <2> QED
    BY <1>3, <2>1, <2>2
<1>5. \A n : LastUndo(u, t, n) => LastUndo(u, t, n)'
  BY <1>1 DEF LastUndo
<1> HIDE DEF m
<1>6. CASE \/ SyncDue(u)
           \/ \E i \in 1 .. Len(out[u]) : out[u][i].target = t
           \/ Making(u) /\ OwnUndo(msg[u], u, t) /\ LastUndo(u, t, msg[u].seq)
  BY <1>1, <1>6 DEF Told, SyncDue, Making, LastUndo, handler
<1>7. CASE \E i \in 1 .. Len(inbox[u]) : inbox[u][i].kind = "sync"
  BY <1>1, <1>4, <1>7 DEF Told, m
<1>8. CASE \E i \in 1 .. Len(inbox[u]) : OwnUndo(inbox[u][i], u, t) /\ LastUndo(u, t, inbox[u][i].seq)
  <2>1. PICK i \in 1 .. Len(inbox[u]) : OwnUndo(inbox[u][i], u, t) /\ LastUndo(u, t, inbox[u][i].seq)
    BY <1>8
  <2>2. CASE i = 1
    <3>1. OwnUndo(m, u, t) /\ LastUndo(u, t, m.seq)
      BY <2>1, <2>2 DEF m
    <3>2. <<t, m.seq>> \in redo'[u]
      BY <1>1, <3>1 DEF OwnUndo
    <3> QED
      BY <1>1, <3>1, <3>2 DEF Told, LastUndo
  <2>3. CASE i # 1
    BY <1>1, <1>4, <2>1, <2>3 DEF Told, LastUndo
  <2> QED
    BY <2>2, <2>3
<1>9. CASE \E p \in redo[u] : p[1] = t /\ LastUndo(u, t, p[2])
  <2>1. PICK p \in redo[u] : p[1] = t /\ LastUndo(u, t, p[2])
    BY <1>9
  <2>2. CASE OwnUndo(m, u, t)
    <3>1. m.seq \in OwnDue(u) /\ p[2] \in Nat
      <4>1. Own(m, u)
        BY <2>2 DEF Own, OwnUndo
      <4>2. Own(inbox[u][1], u) => inbox[u][1].seq \in OwnDue(u)
        BY <1>1, QueueWhenHandled
      <4> QED
        BY <1>1, <2>1, <4>1, <4>2 DEF m
    <3>2. p[2] < m.seq
      BY <2>1, <3>1 DEF OldStacks, Old
    <3>3. \A e \in events : e.seq \in Nat
      BY DEF Fit, ServerFit, Event
    <3>4. LastUndo(u, t, m.seq)
      BY <1>2, <2>1, <3>1, <3>2, <3>3 DEF LastUndo
    <3>5. <<t, m.seq>> \in redo'[u]
      BY <1>1, <2>2 DEF OwnUndo
    <3> QED
      BY <1>1, <3>4, <3>5 DEF Told, LastUndo
  <2>3. CASE ~OwnUndo(m, u, t)
    <3>1. p \in redo'[u]
      BY <1>1, <2>1, <2>3 DEF OwnUndo
    <3> QED
      BY <1>1, <2>1, <3>1 DEF Told, LastUndo
  <2> QED
    BY <2>2, <2>3
<1> QED
  BY <1>6, <1>7, <1>8, <1>9 DEF Told

LEMMA RedoableKept == ASSUME Fit, WindowFit, OwnOrder, Redoable, [Next]_vars PROVE Redoable'
<1> SUFFICES ASSUME ~reused', NEW v \in Users, NEW k \in 1 .. Len(undone'[v])
             PROVE  Told(v, undone[v][k])'
  BY DEF Redoable
<1>0. \A x : x = undone'[v][k] => (Told(v, x)' => Told(v, undone[v][k])')
  BY DEF Told, OwnUndo, LastUndo
<1> SUFFICES ASSUME NEW t, t = undone'[v][k] PROVE Told(v, t)'
  BY <1>0
<1>1. /\ undone \in [Users -> Seq(Nat)] /\ undone[v] \in Seq(Nat)
      /\ redo \in [Users -> SUBSET (Nat \X Nat)] /\ out \in [Users -> Seq(Request)]
      /\ inbox \in [Users -> Seq(Packet)] /\ drawn[v] \in Seq(Nat)
  BY StackTypes DEF Fit, StacksFit, ClicksFit, InboxesFit
<1>2. \A i \in 1 .. Len(undone[v]) : undone[v][i] \in Nat \ {0}
  BY <1>1 DEF Fit, StacksFit
<1>3. ASSUME ~reused PROVE /\ \A i \in 1 .. Len(undone[v]) : Told(v, undone[v][i])
                           /\ OwnQueue(v) /\ OldStacks(v)
  BY <1>3 DEF Redoable, OwnOrder
<1>4. ASSUME NEW u \in Users, ShapeCompleted(u) \/ OnUndoClicked(u) \/ OnRedoClicked(u)
      PROVE  Told(v, t)'
  <2>1. UNCHANGED <<handler, inbox, events, reused>>
    BY <1>4 DEF ShapeCompleted, OnUndoClicked, OnRedoClicked, history, server
  <2>2. ASSUME NEW target, SendDrawEvent(u, target)
        PROVE  /\ \A i \in 1 .. Len(out[v]) : \E j \in 1 .. Len(out'[v]) : out'[v][j] = out[v][i]
               /\ v = u => \E j \in 1 .. Len(out'[v]) : out'[v][j].target = target
    <3> DEFINE r == [id |-> counter[u] + 1, art |-> requests + 1, target |-> target]
    <3>1. out' = [out EXCEPT ![u] = Append(@, r)] /\ r.target = target
      BY <2>2 DEF SendDrawEvent
    <3> HIDE DEF r
    <3>2. CASE v = u
      <4>1. out'[v] = Append(out[v], r) /\ out[v] \in Seq(Request)
        BY <1>1, <3>1, <3>2
      <4>2. Len(out'[v]) = Len(out[v]) + 1 /\ out'[v][Len(out[v]) + 1] = r /\ Len(out[v]) \in Nat
            /\ \A i \in 1 .. Len(out[v]) : out'[v][i] = out[v][i]
        BY <4>1
      <4> QED
        BY <3>1, <4>2
    <3>3. CASE v # u
      BY <1>1, <3>1, <3>3
    <3> QED
      BY <3>2, <3>3
  <2>3. (SyncDue(v) => SyncDue(v)') /\ (Making(v) => Making(v)') /\ msg' = msg
    BY <2>1 DEF SyncDue, Making, handler
  <2>4. ASSUME NEW i \in 1 .. Len(undone[v]), t = undone[v][i], redo'[v] = redo[v]
        PROVE  Told(v, t)'
    <3>1. Told(v, t)
      BY <1>3, <2>1, <2>4
    <3>2. UNCHANGED out \/ \E target : SendDrawEvent(u, target)
      BY <1>4 DEF ShapeCompleted, OnUndoClicked, OnRedoClicked
    <3>3. \A j \in 1 .. Len(out[v]) : \E l \in 1 .. Len(out'[v]) : out'[v][l] = out[v][j]
      BY <2>2, <3>2
    <3> QED
      BY <2>1, <2>3, <2>4, <3>1, <3>3, ToldRests
  <2>5. CASE v # u
    <3>1. undone'[v] = undone[v] /\ redo'[v] = redo[v]
      BY <1>1, <1>4, <2>5 DEF ShapeCompleted, OnUndoClicked, OnRedoClicked
    <3> QED
      BY <2>4, <3>1
  <2>6. CASE v = u /\ ShapeCompleted(u)
    <3>1. undone'[v] = <<>>
      BY <1>1, <2>6 DEF ShapeCompleted
    <3> QED
      BY <3>1
  <2>7. CASE v = u /\ OnUndoClicked(u)
    <3> DEFINE target == drawn[u][Len(drawn[u])]
    <3>1. /\ undone'[v] = Append(undone[v], target) /\ redo' = redo /\ SendDrawEvent(u, target)
          /\ drawn[v] # <<>> /\ target \in Nat
      <4>1. drawn[v] # <<>>
        BY <2>7 DEF OnUndoClicked
      <4>2. target \in Nat
        BY <1>1, <2>7, <4>1, RestSeq
      <4> QED
        BY <1>1, <2>7, <4>1, <4>2 DEF OnUndoClicked
    <3> HIDE DEF target
    <3>2. /\ Len(undone'[v]) = Len(undone[v]) + 1 /\ Len(undone[v]) \in Nat
          /\ undone'[v][Len(undone[v]) + 1] = target
          /\ \A i \in 1 .. Len(undone[v]) : undone'[v][i] = undone[v][i]
      BY <1>1, <3>1, AppendSeq
    <3>3. k \in 1 .. Len(undone[v]) \/ k = Len(undone[v]) + 1
      BY <3>2
    <3>4. CASE k \in 1 .. Len(undone[v])
      BY <2>4, <3>1, <3>2, <3>4
    <3>5. CASE k = Len(undone[v]) + 1
      <4>1. t = target
        BY <3>2, <3>5
      <4>2. \E j \in 1 .. Len(out'[v]) : out'[v][j].target = t
        BY <2>2, <2>7, <3>1, <4>1
      <4> QED
        BY <4>2 DEF Told
    <3> QED
      BY <3>3, <3>4, <3>5
  <2>8. CASE v = u /\ OnRedoClicked(u)
    <3>1. undone'[v] = Rest(undone[v]) /\ undone[v] # <<>> /\ redo' = redo
      BY <1>1, <2>8 DEF OnRedoClicked
    <3>2. undone'[v][k] = undone[v][k] /\ k \in 1 .. Len(undone[v])
      <4>1. \A i \in 1 .. Len(Rest(undone[v])) :
               Rest(undone[v])[i] = undone[v][i] /\ i \in 1 .. Len(undone[v])
        BY <1>1, <3>1, RestSeq
      <4> QED
        BY <3>1, <4>1
    <3> QED
      BY <2>4, <3>1, <3>2
  <2> QED
    BY <1>4, <2>5, <2>6, <2>7, <2>8
<1>5. ASSUME NEW u \in Users, AddEvent(u) PROVE Told(v, t)'
  <2>1. (reused => reused') /\ undone' = undone
    BY <1>5 DEF AddEvent, stacks
  <2>2. Told(v, t) /\ t \in Nat \ {0}
    BY <1>2, <1>3, <2>1
  <2> QED
    BY <1>5, <2>2, ToldWhenAdded
<1>6. ASSUME NEW u \in Users, \/ ListActive(u) \/ SyncSnapshot(u) \/ SyncEvents(u)
                              \/ \E w \in Users : Send(u, w)
      PROVE  Told(v, t)'
  <2>1. reused' = reused /\ undone' = undone
    BY <1>6 DEF ListActive, SyncSnapshot, SyncEvents, Send, history, stacks
  <2>2. Told(v, t)
    BY <1>3, <2>1
  <2> QED
    BY <1>6, <2>2, ToldWhenRead, ToldWhenSent
<1>7. ASSUME NEW u \in Users, OnDrawBroadcast(u) \/ OnWhiteboardSync(u) PROVE Told(v, t)'
  <2>1. /\ UNCHANGED <<handler, events, out, reused>> /\ inbox' = [inbox EXCEPT ![u] = Tail(@)]
    BY <1>7 DEF OnDrawBroadcast, OnWhiteboardSync, history, server
  <2>2. CASE v = u /\ OnDrawBroadcast(u)
    <3>1. undone' = undone
      BY <2>2 DEF OnDrawBroadcast
    <3>2. Told(v, t) /\ OwnQueue(v) /\ OldStacks(v)
      BY <1>3, <2>1, <3>1
    <3> QED
      BY <2>2, <3>2, ToldWhenDrawn
  <2>3. CASE v = u /\ OnWhiteboardSync(u)
    <3>1. undone'[v] = <<>>
      BY <1>1, <2>3 DEF OnWhiteboardSync, ClearStacks
    <3> QED
      BY <3>1
  <2>4. CASE v # u
    <3>1. undone'[v] = undone[v] /\ redo'[v] = redo[v] /\ inbox'[v] = inbox[v]
      BY <1>1, <1>7, <2>1, <2>4 DEF OnDrawBroadcast, OnWhiteboardSync, ClearStacks, RecordOwnUndo
    <3>2. Told(v, t)
      BY <1>3, <2>1, <3>1
    <3>3. (SyncDue(v) => SyncDue(v)') /\ (Making(v) => Making(v)') /\ msg' = msg
      BY <2>1 DEF SyncDue, Making, handler
    <3> QED
      BY <2>1, <3>1, <3>2, <3>3, ToldRests
  <2> QED
    BY <1>7, <2>2, <2>3, <2>4
<1>8. ASSUME NEW u \in Users, JoinAgain(u) \/ Reconnect(u) \/ Restart(u) PROVE Told(v, t)'
  <2>1. /\ \A w \in Users \ {u} : \/ step'[w] = step[w] /\ todo'[w] = todo[w]
                                  \/ /\ step[w] = "send" /\ todo'[w] = todo[w] \ {u}
                                     /\ step'[w] = IF todo[w] = {u} THEN "read" ELSE "send"
        /\ step'[u] = "sync"
        /\ \A w \in Users \ {u} : msg'[w] = msg[w]
        /\ out' = [out EXCEPT ![u] = <<>>]
    BY <1>8, Joins
  <2>2. \E n \in 0 .. Len(inbox[u]) : inbox' = [inbox EXCEPT ![u] = SubSeq(@, 1, n)]
    BY <1>8, Joins
  <2>3. UNCHANGED <<server, reused>>
    BY <1>8, Joins
  <2>4. CASE v = u
    BY <2>1, <2>4 DEF Told, SyncDue
  <2>5. CASE v # u
    <3>1. undone'[v] = undone[v] /\ redo'[v] = redo[v]
      BY <1>1, <1>8, <2>5 DEF JoinAgain, Reconnect, Restart, ClearAll, ClearStacks, stacks
    <3>2. inbox'[v] = inbox[v] /\ out'[v] = out[v] /\ events' = events
      BY <1>1, <2>1, <2>2, <2>3, <2>5 DEF server
    <3>3. Told(v, t)
      BY <1>3, <2>3, <3>1
    <3>4. (SyncDue(v) => SyncDue(v)') /\ (Making(v) => Making(v)') /\ msg'[v] = msg[v]
      BY <2>1, <2>5 DEF SyncDue, Making
    <3> QED
      BY <3>1, <3>2, <3>3, <3>4, ToldRests
  <2> QED
    BY <2>4, <2>5
<1>9. CASE TakeSnapshot \/ UNCHANGED vars
  <2>1. UNCHANGED <<handler, inbox, stacks, out, reused>> /\ events' \subseteq events
    BY <1>9 DEF TakeSnapshot, vars, history, server, input, AfterSeq
  <2>2. Told(v, t) /\ redo' = redo
    BY <1>3, <2>1 DEF stacks
  <2>3. (SyncDue(v) => SyncDue(v)') /\ (Making(v) => Making(v)') /\ msg' = msg
    BY <2>1 DEF SyncDue, Making, handler
  <2> QED
    BY <2>1, <2>2, <2>3, ToldRests
<1>10. ASSUME NEW u \in Users, Turns(u) \/ PacketDropped(u) PROVE Told(v, t)'
  <2>1. UNCHANGED <<handler, events, out, reused>>
    BY <1>10, Turned DEF PacketDropped, history, server, input
  <2>2. v # u
    <3>1. SUFFICES ASSUME v = u PROVE undone'[v] = <<>>
      OBVIOUS
    <3>2. CASE Turns(u)
      BY <3>1, <3>2, Turned
    <3>3. CASE PacketDropped(u)
      BY <3>1, <3>3 DEF PacketDropped, WindowFit, stacks
    <3> QED
      BY <1>10, <3>2, <3>3
  <2>3. undone'[v] = undone[v] /\ redo'[v] = redo[v] /\ inbox'[v] = inbox[v]
    <3>1. CASE Turns(u)
      BY <2>2, <3>1, Turned
    <3>2. CASE PacketDropped(u)
      BY <1>1, <2>2, <3>2 DEF PacketDropped, stacks
    <3> QED
      BY <1>10, <3>1, <3>2
  <2>4. Told(v, t)
    BY <1>3, <2>1, <2>3
  <2>5. (SyncDue(v) => SyncDue(v)') /\ (Making(v) => Making(v)') /\ msg' = msg
    BY <2>1 DEF SyncDue, Making, handler
  <2> QED
    BY <2>1, <2>3, <2>4, <2>5, ToldRests
<1> QED
  BY <1>4, <1>5, <1>6, <1>7, <1>8, <1>9, <1>10 DEF Next, Turns

\* Redo aims at the last undo event of the drawing, however fast undo and redo
\* were clicked (on_undo_clicked, on_redo_clicked and record_own_undo): what
\* was answered last has the largest number, since the requests of a user are
\* numbered in the order of the clicks and answered in that order.
THEOREM RedoAimsTrue == Spec => []RedoAimsAtLastUndo
<1> DEFINE Inv == Fit /\ WindowFit /\ OwnOrder /\ Redoable
<1>1. Init => Inv
  BY FitInit, WindowInit, OwnOrderInit DEF Init, Redoable
<1>2. Inv /\ [Next]_vars => Inv'
  BY FitKept, WindowKept, OwnOrderKept, RedoableKept
<1>3. Inv => RedoAimsAtLastUndo
  <2> SUFFICES ASSUME Inv, NEW u \in Users, Quiet(u), ~reused, NEW i \in 1 .. Len(undone[u])
               PROVE  \E p \in redo[u] : /\ p[1] = undone[u][i]
                                         /\ LastUndo(u, p[1], p[2])
    BY DEF RedoAimsAtLastUndo, LastUndo
  <2>1. Told(u, undone[u][i])
    BY DEF Redoable
  <2>2. inbox[u] = <<>> /\ out[u] = <<>> /\ step[u] = "read" /\ u \notin todo[u]
    BY DEF Quiet
  <2>3. \E p \in redo[u] : p[1] = undone[u][i] /\ LastUndo(u, undone[u][i], p[2])
    BY <2>1, <2>2 DEF Told, SyncDue, Making
  <2> QED
    BY <2>3
<1> HIDE DEF Inv
<1> QED
  BY <1>1, <1>2, <1>3, PTL DEF Spec

-----------------------------------------------------------------------------
(* What is shown: the items a canvas will have when its inbox is empty       *)

ItemOf(e) == [seq |-> e.seq, art |-> e.art]

\* What the i-th packet of b puts there; 0 is the canvas itself.
Part(I, b, i) == IF i = 0 THEN I ELSE IF b[i].kind = "draw" THEN {ItemOf(b[i])} ELSE b[i].list
KeepsItem(m, x) == m.kind = "draw" /\ (m.seq = x.seq => m.art = x.art)
Shows(I, b, x) ==
    \E i \in 0 .. Len(b) : x \in Part(I, b, i) /\ \A j \in i + 1 .. Len(b) : KeepsItem(b[j], x)
Seen(I, b) == {x \in Item : Shows(I, b, x)}

\* The canvas I after the packet m
After(I, m) == IF m.kind = "draw" THEN {x \in I : x.seq # m.seq} \cup {ItemOf(m)} ELSE m.list

LEMMA SeenEmpty == ASSUME NEW I \in SUBSET Item PROVE Seen(I, <<>>) = I
<1>1. Len(<<>>) = 0 /\ 0 .. 0 = {0} /\ 0 + 1 .. 0 = {}
  OBVIOUS
<1>2. \A x : Shows(I, <<>>, x) <=> x \in I
  BY <1>1 DEF Shows, Part
<1> QED
  BY <1>2 DEF Seen

LEMMA AfterKeeps ==
    ASSUME NEW I, NEW m \in Packet, NEW x \in Item
    PROVE  x \in After(I, m) <=> \/ x \in I /\ KeepsItem(m, x)
                                 \/ x \in IF m.kind = "draw" THEN {ItemOf(m)} ELSE m.list
<1>1. x.seq = m.seq /\ x.art = m.art <=> x = ItemOf(m)
  BY DEF Item, ItemOf, Packet
<1> QED
  BY <1>1 DEF After, KeepsItem

\* A packet more at the end of the inbox
LEMMA SeenSent ==
    ASSUME NEW I \in SUBSET Item, NEW b \in Seq(Packet), NEW m \in Packet
    PROVE  Seen(I, Append(b, m)) = After(Seen(I, b), m)
<1> DEFINE c == Append(b, m)
           k == Len(b) + 1
<1>1. /\ Len(b) \in Nat /\ Len(c) = k /\ c[k] = m /\ \A i \in 1 .. Len(b) : c[i] = b[i]
  BY AppendSeq
<1>2. k \in Nat /\ k # 0 /\ k \in 0 .. k /\ k + 1 .. k = {}
  BY <1>1
<1>3. \A i \in 0 .. Len(b) : /\ i \in 0 .. k /\ k \in i + 1 .. k
                             /\ \A j \in i + 1 .. k : j = k \/ j \in i + 1 .. Len(b)
                             /\ \A j \in i + 1 .. Len(b) : j \in 1 .. Len(b) /\ j \in i + 1 .. k
  BY <1>1
<1>4. \A i \in 0 .. k : i = k \/ i \in 0 .. Len(b)
  BY <1>1
<1> HIDE DEF c, k
<1>5. \A i \in 0 .. Len(b) : Part(I, c, i) = Part(I, b, i)
  <2>1. \A i \in 0 .. Len(b) : i = 0 \/ i \in 1 .. Len(b)
    BY <1>1
  <2> QED
    BY <1>1, <2>1 DEF Part
<1>6. Part(I, c, k) = IF m.kind = "draw" THEN {ItemOf(m)} ELSE m.list
  BY <1>1, <1>2 DEF Part
<1>7. ASSUME NEW x
      PROVE  Shows(I, c, x) <=> \/ Shows(I, b, x) /\ KeepsItem(m, x)
                                \/ x \in Part(I, c, k)
  <2>1. ASSUME NEW i \in 0 .. Len(b)
        PROVE  (\A j \in i + 1 .. k : KeepsItem(c[j], x))
                  <=> (\A j \in i + 1 .. Len(b) : KeepsItem(b[j], x)) /\ KeepsItem(m, x)
    BY <1>1, <1>3
  <2>2. ASSUME Shows(I, c, x) PROVE (Shows(I, b, x) /\ KeepsItem(m, x)) \/ x \in Part(I, c, k)
    <3>1. PICK i \in 0 .. k : x \in Part(I, c, i) /\ \A j \in i + 1 .. k : KeepsItem(c[j], x)
      BY <1>1, <2>2 DEF Shows
    <3>2. CASE i \in 0 .. Len(b)
      BY <1>5, <2>1, <3>1, <3>2 DEF Shows
    <3> QED
      BY <1>4, <3>1, <3>2
  <2>3. ASSUME Shows(I, b, x), KeepsItem(m, x) PROVE Shows(I, c, x)
    <3>1. PICK i \in 0 .. Len(b) : x \in Part(I, b, i) /\ \A j \in i + 1 .. Len(b) : KeepsItem(b[j], x)
      BY <2>3 DEF Shows
    <3>2. x \in Part(I, c, i) /\ i \in 0 .. k /\ \A j \in i + 1 .. k : KeepsItem(c[j], x)
      BY <1>3, <1>5, <2>1, <2>3, <3>1
    <3> QED
      BY <1>1, <3>2 DEF Shows
  <2>4. ASSUME x \in Part(I, c, k) PROVE Shows(I, c, x)
    BY <1>1, <1>2, <2>4 DEF Shows
  <2> QED
    BY <2>2, <2>3, <2>4
<1>8. \A x \in Item : x \in Seen(I, c) <=> x \in After(Seen(I, b), m)
  BY <1>6, <1>7, AfterKeeps DEF Seen
<1>9. After(Seen(I, b), m) \subseteq Item
  BY DEF After, Seen, ItemOf, Packet, Item
<1> QED
  BY <1>8, <1>9 DEF Seen, c

\* The window handles the packet at the head of the inbox.
LEMMA SeenHandled ==
    ASSUME NEW I \in SUBSET Item, NEW b \in Seq(Packet), b # <<>>
    PROVE  Seen(After(I, b[1]), Tail(b)) = Seen(I, b)
<1> DEFINE c == Tail(b)
           J == After(I, b[1])
           n == Len(b)
<1>1. /\ n \in Nat \ {0} /\ Len(c) = n - 1 /\ b[1] \in Packet
      /\ \A i \in 1 .. n - 1 : c[i] = b[i + 1] /\ i + 1 \in 1 .. n
  BY TailSeq
<1>2. /\ \A i \in 0 .. n - 1 : i + 1 \in 0 .. n /\ i + 1 # 0 /\ i + 1 \in 1 .. n
      /\ \A i \in 1 .. n : i - 1 \in 0 .. n - 1 /\ (i - 1) + 1 = i
      /\ \A i \in 0 .. n : i = 0 \/ i \in 1 .. n
      /\ \A i \in 0 .. n - 1 : i = 0 \/ i \in 1 .. n - 1
  BY <1>1
<1>3. \A i \in 0 .. n - 1 : /\ \A j \in i + 1 .. n - 1 : j \in 1 .. n - 1 /\ j + 1 \in (i + 1) + 1 .. n
                            /\ \A j \in (i + 1) + 1 .. n : j - 1 \in i + 1 .. n - 1 /\ (j - 1) + 1 = j
  BY <1>1
<1>4. \A j \in 1 .. n : j = 1 \/ j \in 2 .. n
  BY <1>1
<1>5. 0 \in 0 .. n /\ 1 \in 0 .. n /\ 1 \in 1 .. n /\ 0 \in 0 .. n - 1 /\ 2 .. n \subseteq 1 .. n
  BY <1>1
<1>a. 0 + 1 = 1 /\ 1 + 1 = 2
  OBVIOUS
<1> HIDE DEF c, J, n
<1>6. ASSUME NEW x, NEW i \in 0 .. n - 1
      PROVE  (\A j \in i + 1 .. n - 1 : KeepsItem(c[j], x)) <=> (\A j \in (i + 1) + 1 .. n : KeepsItem(b[j], x))
  BY <1>1, <1>3
<1>7. \A i \in 1 .. n - 1 : Part(J, c, i) = Part(I, b, i + 1)
  <2>1. \A i \in 1 .. n - 1 : i # 0 /\ i + 1 # 0
    OBVIOUS
  <2> QED
    BY <1>1, <2>1 DEF Part
<1>8. ASSUME NEW x \in Item
      PROVE  x \in J <=> (x \in I /\ KeepsItem(b[1], x)) \/ x \in Part(I, b, 1)
  BY <1>1, AfterKeeps DEF Part, J
<1>9. ASSUME NEW x \in Item, Shows(J, c, x) PROVE Shows(I, b, x)
  <2>1. PICK i \in 0 .. n - 1 : x \in Part(J, c, i) /\ \A j \in i + 1 .. n - 1 : KeepsItem(c[j], x)
    BY <1>1, <1>9 DEF Shows
  <2>2. \A j \in (i + 1) + 1 .. n : KeepsItem(b[j], x)
    BY <1>6, <2>1
  <2>3. CASE i \in 1 .. n - 1
    <3>1. x \in Part(I, b, i + 1) /\ i + 1 \in 0 .. n
      BY <1>2, <1>7, <2>1, <2>3
    <3> QED
      BY <2>2, <3>1 DEF Shows, n
  <2>4. CASE i = 0
    <3>1. x \in J /\ \A j \in 2 .. n : KeepsItem(b[j], x)
      BY <1>a, <2>1, <2>2, <2>4 DEF Part
    <3>2. CASE x \in Part(I, b, 1)
      BY <1>a, <1>5, <3>1, <3>2 DEF Shows, n
    <3>3. CASE x \in I /\ KeepsItem(b[1], x)
      <4>1. \A j \in 0 + 1 .. n : KeepsItem(b[j], x)
        BY <1>a, <1>4, <3>1, <3>3
      <4>2. x \in Part(I, b, 0)
        BY <3>3 DEF Part
      <4> QED
        BY <1>5, <4>1, <4>2 DEF Shows, n
    <3> QED
      BY <1>8, <3>1, <3>2, <3>3
  <2> QED
    BY <1>2, <2>3, <2>4
<1>10. ASSUME NEW x \in Item, Shows(I, b, x) PROVE Shows(J, c, x)
  <2>1. PICK i \in 0 .. n : x \in Part(I, b, i) /\ \A j \in i + 1 .. n : KeepsItem(b[j], x)
    BY <1>10 DEF Shows, n
  <2>2. CASE i = 0
    <3>1. x \in I /\ KeepsItem(b[1], x) /\ \A j \in 2 .. n : KeepsItem(b[j], x)
      BY <1>a, <1>5, <2>1, <2>2 DEF Part
    <3>2. x \in Part(J, c, 0)
      BY <1>8, <3>1 DEF Part
    <3>3. \A j \in 0 + 1 .. n - 1 : KeepsItem(c[j], x)
      BY <1>a, <1>5, <1>6, <3>1
    <3> QED
      BY <1>1, <1>5, <3>2, <3>3 DEF Shows
  <2>3. CASE i = 1
    <3>1. x \in J
      BY <1>8, <2>1, <2>3
    <3>2. x \in Part(J, c, 0)
      BY <3>1 DEF Part
    <3>3. \A j \in 0 + 1 .. n - 1 : KeepsItem(c[j], x)
      BY <1>a, <1>5, <1>6, <2>1, <2>3
    <3> QED
      BY <1>1, <1>5, <3>2, <3>3 DEF Shows
  <2>4. CASE i # 0 /\ i # 1
    <3>1. i - 1 \in 0 .. n - 1 /\ (i - 1) + 1 = i /\ i - 1 # 0
      BY <1>2, <2>1, <2>4
    <3>2. i - 1 \in 1 .. n - 1
      BY <1>2, <3>1
    <3>3. x \in Part(J, c, i - 1)
      BY <1>7, <2>1, <3>1, <3>2
    <3>4. \A j \in (i - 1) + 1 .. n - 1 : KeepsItem(c[j], x)
      BY <1>6, <2>1, <3>1
    <3> QED
      BY <1>1, <3>1, <3>3, <3>4 DEF Shows
  <2> QED
    BY <2>2, <2>3, <2>4
<1> QED
  BY <1>9, <1>10 DEF Seen, c, J

Synced(b) == \E i \in 1 .. Len(b) : b[i].kind = "sync"

\* What was on the canvas before a sync is no matter after it.
LEMMA SeenSynced ==
    ASSUME NEW I, NEW J, NEW b \in Seq(Packet), Synced(b) PROVE Seen(I, b) = Seen(J, b)
<1>1. Len(b) \in Nat /\ 0 + 1 .. Len(b) = 1 .. Len(b) /\ \A i \in 0 .. Len(b) : i = 0 \/ i \in 1 .. Len(b)
  OBVIOUS
<1>2. ASSUME NEW K, NEW L, NEW x, Shows(K, b, x) PROVE Shows(L, b, x)
  <2>1. PICK i \in 0 .. Len(b) : x \in Part(K, b, i) /\ \A j \in i + 1 .. Len(b) : KeepsItem(b[j], x)
    BY <1>2 DEF Shows
  <2>2. i # 0
    BY <1>1, <2>1 DEF Synced, KeepsItem
  <2>3. x \in Part(L, b, i)
    BY <2>1, <2>2 DEF Part
  <2> QED
    BY <2>1, <2>3 DEF Shows
<1> QED
  BY <1>2 DEF Seen

LEMMA TakenSynced ==
    ASSUME NEW b \in Seq(Packet), b # <<>>, Synced(Tail(b)) PROVE Synced(b)
BY TailSeq DEF Synced

-----------------------------------------------------------------------------
(* What a list or a canvas promises: when no later undo has been accepted,   *)
(* it shows the active events up to its number, and, while nothing has been  *)
(* pruned, nothing else.                                                     *)

Unpruned(E, L) == \A n \in 1 .. L : \E e \in E : e.seq = n
Faithful(E, L, N, S) ==
    (\A f \in E : f.seq > N => f.target = 0) =>
        /\ \A e \in Active(E) : e.seq <= N => ItemOf(e) \in S
        /\ Unpruned(E, L) => \A x \in S : x \in ItemsOf(Active(E))

\* The list of active events is faithful to any number.
LEMMA ListFaithful == ASSUME NEW E, NEW L, NEW N PROVE Faithful(E, L, N, ItemsOf(Active(E)))
BY DEF Faithful, ItemsOf, ItemOf

\* It stays so when an event is accepted ...
LEMMA FaithfulAdded ==
    ASSUME Fit, NEW u \in Users, AddEvent(u), NEW N \in Nat, N <= lastSeq, NEW S,
           Faithful(events, lastSeq, N, S)
    PROVE  Faithful(events', lastSeq', N, S)
<1> DEFINE r == out[u][1]
           e == NewEvent(u, r)
<1>1. /\ \/ lastSeq' = lastSeq /\ events' = events
         \/ lastSeq' = lastSeq + 1 /\ events' = events \cup {e}
      /\ lastSeq \in Nat /\ r \in Request
  BY Adds
<1>2. e.seq = lastSeq + 1 /\ e.target = r.target /\ e.seq \in Nat
  BY <1>1 DEF NewEvent
<1>3. \A f \in events : f.seq \in Nat /\ f.seq <= lastSeq /\ f.target < f.seq /\ f.target \in Nat
  BY DEF Fit, ServerFit, Event
<1> HIDE DEF e, r
<1> SUFFICES ASSUME lastSeq' = lastSeq + 1, events' = events \cup {e},
                    \A f \in events' : f.seq > N => f.target = 0
             PROVE  /\ \A f \in Active(events') : f.seq <= N => ItemOf(f) \in S
                    /\ Unpruned(events', lastSeq') => \A x \in S : x \in ItemsOf(Active(events'))
  BY <1>1 DEF Faithful
<1>4. e.target = 0 /\ \A f \in events : f.seq > N => f.target = 0
  BY <1>1, <1>2
<1>5. Active(events') = Active(events) \cup {e}
  <2>1. \A f \in events \cup {e} : f.seq \in Nat /\ f.seq <= lastSeq + 1
    BY <1>1, <1>2, <1>3
  <2>2. \A f \in events : f.target # e.seq
    BY <1>1, <1>2, <1>3
  <2>3. lastSeq + 1 \in Nat
    BY <1>1
  <2> QED
    BY <1>4, <2>1, <2>2, <2>3, DrawingJoins
<1>6. ASSUME NEW f \in Active(events'), f.seq <= N PROVE ItemOf(f) \in S
  <2>1. f # e
    BY <1>1, <1>2, <1>6
  <2> QED
    BY <1>4, <1>5, <1>6, <2>1 DEF Faithful
<1>7. Unpruned(events', lastSeq') => Unpruned(events, lastSeq)
  BY <1>1, <1>2 DEF Unpruned
<1>8. ItemsOf(Active(events)) \subseteq ItemsOf(Active(events'))
  BY <1>5 DEF ItemsOf
<1> QED
  BY <1>4, <1>6, <1>7, <1>8 DEF Faithful

\* ... and when the snapshot takes events away: those up to N matter no more
\* or no undo after N is gone.
LEMMA FaithfulPruned ==
    ASSUME Fit, TakeSnapshot, NEW N \in Nat, NEW S, Faithful(events, lastSeq, N, S)
    PROVE  Faithful(events', lastSeq', N, S)
<1>1. PICK n \in Seqs(events) : events' = AfterSeq(events, n)
  BY DEF TakeSnapshot
<1>2. lastSeq' = lastSeq /\ lastSeq \in Nat
  BY DEF TakeSnapshot, Fit, ServerFit
<1>3. \A f \in events : f.seq \in Nat /\ f.seq <= lastSeq /\ 1 <= f.seq /\ f.target < f.seq /\ f.target \in Nat
  BY DEF Fit, ServerFit, Event
<1>4. n \in Nat /\ 1 <= n /\ n <= lastSeq
  BY <1>1, <1>3 DEF Seqs
<1>5. Active(events') = {e \in Active(events) : e.seq > n}
  BY <1>1, <1>2, <1>3, <1>4, PruneKeepsActive
<1>6. ~Unpruned(events', lastSeq')
  <2>1. \A f \in events' : f.seq # n
    BY <1>1, <1>3, <1>4 DEF AfterSeq
  <2>2. n \in 1 .. lastSeq'
    BY <1>2, <1>4
  <2> QED
    BY <2>1, <2>2 DEF Unpruned
<1>7. ASSUME \A f \in events' : f.seq > N => f.target = 0,
             NEW e \in Active(events'), e.seq <= N
      PROVE  ItemOf(e) \in S
  <2>1. e \in Active(events) /\ e.seq > n /\ e \in events
    BY <1>5 DEF Active, Drawings
  <2>2. \A f \in events : f.seq > N => f \in events'
    BY <1>1, <1>3, <1>4, <1>7, <2>1 DEF AfterSeq
  <2> QED
    BY <1>7, <2>1, <2>2 DEF Faithful
<1> QED
  BY <1>6, <1>7 DEF Faithful

LEMMA FullWhenCounted ==
    ASSUME Fit, lastSeq = Cardinality(events) PROVE Unpruned(events, lastSeq)
<1> DEFINE I == 1 .. lastSeq
           f == [e \in events |-> e.seq]
<1>1. /\ lastSeq \in Nat /\ IsFiniteSet(events)
      /\ \A e \in events : e.seq \in Nat /\ 1 <= e.seq /\ e.seq <= lastSeq
      /\ \A d, e \in events : d.seq = e.seq => d = e
  BY DEF Fit, ServerFit, Event, OnePerSeq
<1>2. f \in Injection(events, I)
  BY <1>1 DEF Injection, IsInjective
<1>3. IsFiniteSet(I) /\ Cardinality(I) = lastSeq
  BY <1>1, FS_Interval
<1>4. f \in Surjection(events, I)
  BY <1>2, <1>3, FS_Injection
<1>5. \A n \in I : \E e \in events : f[e] = n
  BY <1>4 DEF Surjection
<1> QED
  BY <1>5 DEF Unpruned

-----------------------------------------------------------------------------
(* What has not been sent to a user yet is owed to the user by some handler. *)

\* w is going to send v a broadcast.
Owes(w, v) == step[w] = "list" \/ (v \in todo[w] /\ msg[w].kind # "sync")

\* The packet w makes is of the event with its number.
Genuine(w) == \A e \in events : e.seq = msg[w].seq => e.art = msg[w].art /\ e.target = msg[w].target

Owed(v, n) ==
    \/ step[v] \in {"sync", "sync_list"}
    \/ v \in todo[v] /\ msg[v].kind = "sync" /\ n <= msg[v].seq
    \/ \E w \in Users : Owes(w, v) /\ msg[w].seq = n /\ Genuine(w)

Numbered(v) == \A n \in newest[v] + 1 .. lastSeq : Owed(v, n)

LEMMA NumberedRests ==
    ASSUME NEW v \in Users, Numbered(v), lastSeq' = lastSeq, newest'[v] = newest[v],
           events' \subseteq events,
           step[v] \in {"sync", "sync_list"} => step'[v] \in {"sync", "sync_list"},
           v \in todo[v] /\ msg[v].kind = "sync" => v \in todo'[v] /\ msg'[v] = msg[v],
           \A w \in Users : Owes(w, v) =>
              /\ Owes(w, v)' /\ msg'[w].seq = msg[w].seq
              /\ msg'[w].art = msg[w].art /\ msg'[w].target = msg[w].target
    PROVE  Numbered(v)'
<1> SUFFICES ASSUME NEW n \in newest'[v] + 1 .. lastSeq' PROVE Owed(v, n)'
  BY DEF Numbered, Owed, Genuine, Owes
<1>1. Owed(v, n)
  BY DEF Numbered
<1>2. CASE \E w \in Users : Owes(w, v) /\ msg[w].seq = n /\ Genuine(w)
  <2>1. PICK w \in Users : Owes(w, v) /\ msg[w].seq = n /\ Genuine(w)
    BY <1>2
  <2>2. Owes(w, v)' /\ msg'[w].seq = n /\ Genuine(w)'
    BY <2>1 DEF Genuine
  <2> QED
    BY <2>2 DEF Owed, Genuine, Owes
<1> QED
  BY <1>1, <1>2 DEF Owed

\* What another user's handler did nothing about
LEMMA OwesRest ==
    ASSUME NEW u, NEW w, NEW v, w # u, step'[w] = step[w], todo'[w] = todo[w], msg'[w] = msg[w]
    PROVE  Owes(w, v)' <=> Owes(w, v)
BY DEF Owes

LEMMA NumberedWhenAdded ==
    ASSUME Fit, NEW u \in Users, AddEvent(u), NEW v \in Users, Numbered(v)
    PROVE  Numbered(v)'
<1> DEFINE r == out[u][1]
           m == NewPacket(u, r)
           e == NewEvent(u, r)
<1>1. /\ step[u] = "read" /\ todo[u] = {} /\ r \in Request /\ lastSeq \in Nat
      /\ \/ EventSeq(u, r) = lastSeq + 1 /\ lastSeq' = lastSeq + 1 /\ events' = events \cup {e}
         \/ lastSeq' = lastSeq /\ events' = events
      /\ msg' = [msg EXCEPT ![u] = m]
      /\ step' = [step EXCEPT ![u] = IF r.target = 0 THEN "send" ELSE "list"]
      /\ todo' = [todo EXCEPT ![u] = IF r.target = 0 THEN Users ELSE {}]
      /\ newest' = newest
  BY Adds
<1>2. /\ msg \in [Users -> Packet \cup {<<>>}] /\ todo \in [Users -> SUBSET Users]
      /\ step \in [Users -> {"read", "list", "send", "sync", "sync_list"}]
      /\ newest[v] \in Nat
      /\ \A f \in events : f.seq \in Nat /\ f.seq <= lastSeq
      /\ \A w \in Users : HandlerFit(w)
  BY DEF Fit, HandlersFit, ServerFit, Event, InboxesFit
<1>3. /\ m.kind = IF r.target = 0 THEN "draw" ELSE "undo"
      /\ m.seq = EventSeq(u, r) /\ m.target = r.target /\ m.art = r.art
      /\ e.seq = lastSeq + 1 /\ e.target = r.target /\ e.art = r.art
  BY DEF NewPacket, NewEvent
<1> HIDE DEF m, e, r
<1>4. /\ step'[u] = IF r.target = 0 THEN "send" ELSE "list"
      /\ todo'[u] = IF r.target = 0 THEN Users ELSE {}
      /\ msg'[u] = m
      /\ \A w \in Users \ {u} : step'[w] = step[w] /\ todo'[w] = todo[w] /\ msg'[w] = msg[w]
  BY <1>1, <1>2
<1>5. Owes(u, v)'
  <2>1. CASE r.target = 0
    BY <1>3, <1>4, <2>1 DEF Owes
  <2>2. CASE r.target # 0
    BY <1>4, <2>2 DEF Owes
  <2> QED
    BY <2>1, <2>2
<1>6. ASSUME NEW n \in newest[v] + 1 .. lastSeq PROVE Owed(v, n)'
  <2>1. Owed(v, n)
    BY <1>6 DEF Numbered
  <2>2. CASE step[v] \in {"sync", "sync_list"} \/ (v \in todo[v] /\ msg[v].kind = "sync" /\ n <= msg[v].seq)
    <3>1. v # u
      BY <1>1, <2>2
    <3> QED
      BY <1>4, <2>2, <3>1 DEF Owed
  <2>3. CASE \E w \in Users : Owes(w, v) /\ msg[w].seq = n /\ Genuine(w)
    <3>1. PICK w \in Users : Owes(w, v) /\ msg[w].seq = n /\ Genuine(w)
      BY <2>3
    <3>2. w # u
      BY <1>1, <3>1 DEF Owes
    <3>3. step'[w] = step[w] /\ todo'[w] = todo[w] /\ msg'[w] = msg[w]
      BY <1>4, <3>2
    <3>4. Owes(w, v)' /\ msg'[w].seq = n
      BY <3>1, <3>3 DEF Owes
    <3>5. \A f \in events' : f \in events \/ f.seq # n
      BY <1>1, <1>2, <1>3, <1>6
    <3>6. Genuine(w)'
      BY <3>1, <3>3, <3>5 DEF Genuine
    <3> QED
      BY <3>4, <3>6 DEF Owed, Owes, Genuine
  <2> QED
    BY <2>1, <2>2, <2>3 DEF Owed
<1>7. ASSUME lastSeq' = lastSeq + 1, EventSeq(u, r) = lastSeq + 1, events' = events \cup {e},
             NEW n, n = lastSeq + 1
      PROVE  Owed(v, n)'
  <2>1. \A f \in events' : f.seq = lastSeq + 1 => f = e
    BY <1>1, <1>2, <1>7
  <2>2. \A f \in events' : f.seq = msg'[u].seq => f.art = msg'[u].art /\ f.target = msg'[u].target
    BY <1>3, <1>4, <1>7, <2>1
  <2>3. msg'[u].seq = n
    BY <1>3, <1>4, <1>7
  <2>4. Genuine(u)'
    BY <2>2 DEF Genuine
  <2> QED
    BY <1>5, <2>3, <2>4 DEF Owed
<1>8. \A n \in newest'[v] + 1 .. lastSeq' : n \in newest[v] + 1 .. lastSeq
                                           \/ (n = lastSeq + 1 /\ lastSeq' = lastSeq + 1)
  BY <1>1, <1>2
<1> QED
  BY <1>1, <1>6, <1>7, <1>8 DEF Numbered

LEMMA NumberedWhenRead ==
    ASSUME Fit, NEW u \in Users, ListActive(u) \/ SyncSnapshot(u) \/ SyncEvents(u),
           NEW v \in Users, Numbered(v)
    PROVE  Numbered(v)'
<1>1. /\ msg \in [Users -> Packet \cup {<<>>}] /\ todo \in [Users -> SUBSET Users]
      /\ step \in [Users -> {"read", "list", "send", "sync", "sync_list"}] /\ HandlerFit(u)
      /\ UNCHANGED <<newest, lastSeq, events>> /\ lastSeq \in Nat
  BY DEF Fit, HandlersFit, ServerFit, ListActive, SyncSnapshot, SyncEvents, history, server
<1>2. \A w \in Users \ {u} : step'[w] = step[w] /\ todo'[w] = todo[w] /\ msg'[w] = msg[w]
  BY <1>1 DEF ListActive, SyncSnapshot, SyncEvents
<1>3. CASE ListActive(u)
  <2>1. /\ step[u] = "list" /\ todo[u] = {} /\ step'[u] = "send" /\ todo'[u] = Users
        /\ msg[u] \in Packet /\ msg[u].kind = "undo"
    BY <1>1, <1>3 DEF ListActive, HandlerFit, Fits
  <2>2. /\ msg'[u].seq = msg[u].seq /\ msg'[u].art = msg[u].art /\ msg'[u].target = msg[u].target
        /\ msg'[u].kind = msg[u].kind
    BY <1>1, <1>3, <2>1 DEF ListActive, Packet
  <2>3. \A w \in Users : Owes(w, v) =>
           /\ Owes(w, v)' /\ msg'[w].seq = msg[w].seq
           /\ msg'[w].art = msg[w].art /\ msg'[w].target = msg[w].target
    BY <1>2, <2>1, <2>2 DEF Owes
  <2> QED
    BY <1>1, <1>2, <2>1, <2>3, NumberedRests
<1>4. CASE SyncSnapshot(u) \/ SyncEvents(u)
  <2>1. step[u] \in {"sync", "sync_list"} /\ todo[u] = {} /\ msg[u] \in Packet /\ msg[u].kind = "sync"
    BY <1>1, <1>4 DEF SyncSnapshot, SyncEvents, HandlerFit, Fits
  <2>2. \A w \in Users : Owes(w, v) => w # u
    BY <2>1 DEF Owes
  <2>3. \A w \in Users : Owes(w, v) => Owes(w, v)' /\ msg'[w] = msg[w]
    BY <1>2, <2>2 DEF Owes
  <2>4. CASE v = u /\ SyncEvents(u)
    <3>1. v \in todo'[v] /\ msg'[v].kind = "sync" /\ msg'[v].seq = lastSeq
      BY <1>1, <2>1, <2>4 DEF SyncEvents, Packet
    <3>2. \A n \in newest'[v] + 1 .. lastSeq' : n <= msg'[v].seq
      BY <1>1, <3>1 DEF Fit, InboxesFit
    <3> QED
      BY <3>1, <3>2 DEF Numbered, Owed
  <2>5. CASE v = u /\ SyncSnapshot(u)
    <3>1. step'[v] = "sync_list"
      BY <1>1, <2>5 DEF SyncSnapshot
    <3> QED
      BY <3>1 DEF Numbered, Owed
  <2>6. CASE v # u
    BY <1>1, <1>2, <2>3, <2>6, NumberedRests
  <2> QED
    BY <1>4, <2>4, <2>5, <2>6
<1> QED
  BY <1>3, <1>4

LEMMA NumberedWhenSent ==
    ASSUME Fit, NEW u \in Users, NEW w \in Users, Send(u, w), NEW v \in Users, Numbered(v)
    PROVE  Numbered(v)'
<1>1. /\ w \in todo[u] /\ step[u] = "send" /\ msg[u] \in Packet
      /\ msg[u].kind = "sync" => w = u /\ todo[u] = {u}
      /\ todo' = [todo EXCEPT ![u] = @ \ {w}]
      /\ step' = [step EXCEPT ![u] = IF todo[u] = {w} THEN "read" ELSE "send"]
      /\ msg' = [msg EXCEPT ![u] = IF todo[u] = {w} THEN <<>> ELSE msg[u]]
      /\ lastSeq' = lastSeq /\ lastSeq \in Nat /\ events' = events
  BY Sends DEF server
<1>2. /\ msg \in [Users -> Packet \cup {<<>>}] /\ todo \in [Users -> SUBSET Users]
      /\ step \in [Users -> {"read", "list", "send", "sync", "sync_list"}]
      /\ newest \in [Users -> Nat] /\ \A x \in Users : HandlerFit(x)
  BY DEF Fit, HandlersFit, InboxesFit
<1>3. \A x \in Users \ {u} : step'[x] = step[x] /\ todo'[x] = todo[x] /\ msg'[x] = msg[x]
  BY <1>1, <1>2
<1>4. v # w /\ Owes(u, v) => Owes(u, v)' /\ msg'[u] = msg[u]
  BY <1>1, <1>2 DEF Owes
<1>5. \A x \in Users \ {u} : Owes(x, v) => Owes(x, v)' /\ msg'[x] = msg[x]
  BY <1>3 DEF Owes
<1>6. CASE v # w
  <2>1. newest'[v] = newest[v]
    BY <1>2, <1>6 DEF Send
  <2>2. step[v] \in {"sync", "sync_list"} => step'[v] \in {"sync", "sync_list"}
    BY <1>1, <1>3
  <2>3. v \in todo[v] /\ msg[v].kind = "sync" => v \in todo'[v] /\ msg'[v] = msg[v]
    BY <1>1, <1>3, <1>6
  <2> QED
    BY <1>1, <1>4, <1>5, <1>6, <2>1, <2>2, <2>3, NumberedRests
<1>7. CASE v = w
  <2>1. newest'[v] \in Nat /\ newest[v] <= newest'[v] /\ msg[u].seq <= newest'[v]
    <3>1. msg[u].seq \in Nat /\ newest[v] \in Nat
      BY <1>1, <1>2 DEF Packet
    <3>2. newest'[v] = IF (IF msg[u].kind = "sync" THEN msg[u].seq < newest[v] ELSE msg[u].seq <= newest[v])
                       THEN newest[v] ELSE msg[u].seq
      BY <1>2, <1>7 DEF Send
    <3> QED
      BY <3>1, <3>2
  <2>2. ASSUME NEW n \in newest'[v] + 1 .. lastSeq' PROVE Owed(v, n)'
    <3>1. n \in newest[v] + 1 .. lastSeq /\ n # msg[u].seq /\ ~(n <= msg[u].seq)
      BY <1>1, <1>2, <2>1 DEF Packet
    <3>2. Owed(v, n)
      BY <3>1 DEF Numbered
    <3>3. CASE step[v] \in {"sync", "sync_list"} \/ (v \in todo[v] /\ msg[v].kind = "sync" /\ n <= msg[v].seq)
      <4>1. v # u
        BY <1>1, <3>1, <3>3
      <4> QED
        BY <1>3, <3>3, <4>1 DEF Owed
    <3>4. CASE \E x \in Users : Owes(x, v) /\ msg[x].seq = n /\ Genuine(x)
      <4>1. PICK x \in Users : Owes(x, v) /\ msg[x].seq = n /\ Genuine(x)
        BY <3>4
      <4>2. x # u
        BY <3>1, <4>1
      <4>3. Owes(x, v)' /\ msg'[x] = msg[x]
        BY <1>5, <4>1, <4>2
      <4>4. Genuine(x)'
        BY <1>1, <4>1, <4>3 DEF Genuine
      <4> QED
        BY <4>1, <4>3, <4>4 DEF Owed
    <3> QED
      BY <3>2, <3>3, <3>4 DEF Owed
  <2> QED
    BY <2>2 DEF Numbered
<1> QED
  BY <1>6, <1>7

LEMMA NumberedWhenJoined ==
    ASSUME Fit, NEW u \in Users, JoinAgain(u) \/ Reconnect(u) \/ Restart(u), NEW v \in Users, Numbered(v)
    PROVE  Numbered(v)'
<1>1. /\ step[u] = "read" /\ todo[u] = {} /\ step'[u] = "sync"
      /\ \A w \in Users \ {u} : \/ step'[w] = step[w] /\ todo'[w] = todo[w]
                                \/ /\ step[w] = "send" /\ todo'[w] = todo[w] \ {u}
                                   /\ step'[w] = IF todo[w] = {u} THEN "read" ELSE "send"
      /\ \A w \in Users \ {u} : msg'[w] = msg[w]
  BY Joins
<1>2. UNCHANGED <<server, newest>>
  BY Joins
<1>3. CASE v = u
  BY <1>1, <1>3 DEF Numbered, Owed
<1>4. CASE v # u
  <2>1. \A w \in Users : Owes(w, v) => Owes(w, v)' /\ msg'[w] = msg[w]
    <3>1. ASSUME NEW w \in Users, Owes(w, v) PROVE w # u
      BY <1>1, <3>1 DEF Owes
    <3> QED
      BY <1>1, <1>4, <3>1 DEF Owes
  <2>2. /\ step[v] \in {"sync", "sync_list"} => step'[v] \in {"sync", "sync_list"}
        /\ v \in todo[v] /\ msg[v].kind = "sync" => v \in todo'[v] /\ msg'[v] = msg[v]
    BY <1>1, <1>4
  <2> QED
    BY <1>2, <2>1, <2>2, NumberedRests DEF server
<1> QED
  BY <1>3, <1>4

LEMMA NumberedKept ==
    ASSUME Fit, [Next]_vars, NEW v \in Users, Numbered(v) PROVE Numbered(v)'
<1>1. ASSUME NEW u \in Users, ShapeCompleted(u) \/ OnUndoClicked(u) \/ OnRedoClicked(u)
                              \/ OnDrawBroadcast(u) \/ OnWhiteboardSync(u) \/ PacketDropped(u)
                              \/ Turns(u)
      PROVE  Numbered(v)'
  <2>1. UNCHANGED <<server, handler, newest>>
    BY <1>1 DEF ShapeCompleted, OnUndoClicked, OnRedoClicked, OnDrawBroadcast, OnWhiteboardSync,
                PacketDropped, Turns, SelectOther, SelectRoom, history
  <2> QED
    BY <2>1, NumberedRests DEF server, handler, Owes
<1>2. CASE TakeSnapshot \/ UNCHANGED vars
  <2>1. UNCHANGED <<handler, newest, lastSeq>> /\ events' \subseteq events
    BY <1>2 DEF TakeSnapshot, vars, history, server, AfterSeq
  <2> QED
    BY <2>1, NumberedRests DEF handler, Owes
<1> QED
  BY <1>1, <1>2, NumberedWhenAdded, NumberedWhenRead, NumberedWhenSent, NumberedWhenJoined
     DEF Next, Turns

-----------------------------------------------------------------------------
(* A list that is being sent shows the board as of the number it comes with. *)

ListShows(w) ==
    step[w] = "send" /\ msg[w].kind # "draw" => Faithful(events, lastSeq, msg[w].seq, msg[w].list)

LEMMA ListShowsKept ==
    ASSUME Fit, [Next]_vars, NEW w \in Users, ListShows(w) PROVE ListShows(w)'
<1>1. /\ step \in [Users -> {"read", "list", "send", "sync", "sync_list"}]
      /\ msg \in [Users -> Packet \cup {<<>>}] /\ lastSeq \in Nat
      /\ \A u \in Users : HandlerFit(u)
  BY DEF Fit, HandlersFit, ServerFit
<1>2. step[w] = "send" => msg[w].seq \in Nat /\ msg[w].seq <= lastSeq
  BY <1>1 DEF HandlerFit, Fits, Packet
<1>3. ASSUME step'[w] = "send" /\ msg'[w].kind # "draw" => step[w] = "send" /\ msg'[w] = msg[w],
             step[w] = "send" /\ msg[w].kind # "draw" =>
                Faithful(events', lastSeq', msg[w].seq, msg[w].list)
      PROVE  ListShows(w)'
  BY <1>3 DEF ListShows
<1>4. ASSUME NEW u \in Users, ShapeCompleted(u) \/ OnUndoClicked(u) \/ OnRedoClicked(u)
                              \/ OnDrawBroadcast(u) \/ OnWhiteboardSync(u) \/ PacketDropped(u)
                              \/ Turns(u)
      PROVE  ListShows(w)'
  <2>1. UNCHANGED <<server, handler>>
    BY <1>4 DEF ShapeCompleted, OnUndoClicked, OnRedoClicked, OnDrawBroadcast, OnWhiteboardSync,
                PacketDropped, Turns, SelectOther, SelectRoom
  <2> QED
    BY <2>1 DEF server, handler, ListShows
<1>5. ASSUME NEW u \in Users, AddEvent(u) PROVE ListShows(w)'
  <2>1. step'[w] = "send" /\ msg'[w].kind # "draw" => step[w] = "send" /\ msg'[w] = msg[w]
    <3> DEFINE r == out[u][1]
    <3>1. /\ msg' = [msg EXCEPT ![u] = NewPacket(u, r)]
          /\ step' = [step EXCEPT ![u] = IF r.target = 0 THEN "send" ELSE "list"]
      BY <1>5, Adds
    <3>2. NewPacket(u, r).kind = IF r.target = 0 THEN "draw" ELSE "undo"
      BY DEF NewPacket
    <3> HIDE DEF r
    <3> QED
      BY <1>1, <3>1, <3>2
  <2>2. step[w] = "send" /\ msg[w].kind # "draw" => Faithful(events', lastSeq', msg[w].seq, msg[w].list)
    BY <1>2, <1>5, FaithfulAdded DEF ListShows
  <2> QED
    BY <1>3, <2>1, <2>2
<1>6. ASSUME NEW u \in Users, ListActive(u) \/ SyncSnapshot(u) \/ SyncEvents(u) PROVE ListShows(w)'
  <2>1. UNCHANGED server
    BY <1>6 DEF ListActive, SyncSnapshot, SyncEvents
  <2>2. CASE w # u \/ SyncSnapshot(u)
    <3>1. step'[w] = "send" => step[w] = "send" /\ msg'[w] = msg[w]
      BY <1>1, <1>6, <2>2 DEF ListActive, SyncSnapshot, SyncEvents
    <3> QED
      BY <1>3, <2>1, <3>1 DEF server, ListShows
  <2>3. CASE w = u /\ (ListActive(u) \/ SyncEvents(u))
    <3>1. msg[u] \in Packet
      BY <1>1, <2>3 DEF ListActive, SyncEvents, HandlerFit, Fits
    <3>2. msg'[w].list = ItemsOf(Active(events))
      BY <1>1, <2>3, <3>1 DEF ListActive, SyncEvents, Packet
    <3> QED
      BY <2>1, <3>2, ListFaithful DEF server, ListShows
  <2> QED
    BY <1>6, <2>2, <2>3
<1>7. ASSUME NEW u \in Users, NEW v \in Users, Send(u, v) PROVE ListShows(w)'
  <2>1. /\ step[u] = "send" /\ UNCHANGED server
        /\ step' = [step EXCEPT ![u] = IF todo[u] = {v} THEN "read" ELSE "send"]
        /\ msg' = [msg EXCEPT ![u] = IF todo[u] = {v} THEN <<>> ELSE msg[u]]
    BY <1>7, Sends
  <2>2. step'[w] = "send" => step[w] = "send" /\ msg'[w] = msg[w]
    BY <1>1, <2>1
  <2> QED
    BY <1>3, <2>1, <2>2 DEF server, ListShows
<1>8. CASE TakeSnapshot
  <2>1. UNCHANGED handler
    BY <1>8 DEF TakeSnapshot
  <2> QED
    BY <1>2, <1>3, <1>8, <2>1, FaithfulPruned DEF handler, ListShows
<1>9. ASSUME NEW u \in Users, JoinAgain(u) \/ Reconnect(u) \/ Restart(u) PROVE ListShows(w)'
  <2>1. /\ UNCHANGED server /\ step'[u] = "sync"
        /\ \A x \in Users \ {u} : step'[x] = step[x] \/ step[x] = "send"
        /\ \A x \in Users \ {u} : msg'[x] = msg[x]
    BY <1>9, Joins
  <2>2. step'[w] = "send" => step[w] = "send" /\ msg'[w] = msg[w]
    BY <1>1, <2>1
  <2> QED
    BY <1>3, <2>1, <2>2 DEF server, ListShows
<1>10. CASE UNCHANGED vars
  BY <1>10 DEF vars, server, handler, ListShows
<1> QED
  BY <1>4, <1>5, <1>6, <1>7, <1>8, <1>9, <1>10 DEF Next, Turns

-----------------------------------------------------------------------------
(* The canvas shows the board as of the newest state its user was sent.      *)

\* A broadcast is still owed to v that is older than what v has.
Doomed(v) == \E w \in Users : Owes(w, v) /\ msg[w].seq <= newest[v]

\* Once its inbox is empty the window will have handled a sync since it was
\* last cleared, unless it is cleared again.
Sighted(v) == v \notin blind \/ Synced(inbox[v])

View(v) ==
    v \notin outOfOrder /\ ~SyncDue(v) /\ ~Doomed(v) /\ Sighted(v) =>
        Faithful(events, lastSeq, newest[v], Seen(items[v], inbox[v]))

LEMMA ViewRests ==
    ASSUME NEW v \in Users, View(v),
           v \in outOfOrder => v \in outOfOrder', SyncDue(v) => SyncDue(v)', Doomed(v) => Doomed(v)',
           Sighted(v)' => Sighted(v),
           newest'[v] = newest[v], Seen(items'[v], inbox'[v]) = Seen(items[v], inbox[v]),
           \A S : Faithful(events, lastSeq, newest[v], S) => Faithful(events', lastSeq', newest[v], S)
    PROVE  View(v)'
BY DEF View

LEMMA SightedRests ==
    ASSUME NEW v, inbox'[v] = inbox[v], v \in blind => v \in blind' PROVE Sighted(v)' => Sighted(v)
BY DEF Sighted, Synced

\* What is owed is doomed as before when only handlers move on.
LEMMA DoomedRests ==
    ASSUME NEW v \in Users, newest'[v] = newest[v],
           \A w \in Users : Owes(w, v) => Owes(w, v)' /\ msg'[w].seq = msg[w].seq
    PROVE  Doomed(v) => Doomed(v)'
BY DEF Doomed

LEMMA ViewWhenAdded ==
    ASSUME Fit, NEW u \in Users, AddEvent(u), NEW v \in Users, View(v) PROVE View(v)'
<1>1. /\ step[u] = "read" /\ todo[u] = {} /\ UNCHANGED <<newest, items, inbox, outOfOrder>>
      /\ \A w \in Users \ {u} : step'[w] = step[w] /\ todo'[w] = todo[w] /\ msg'[w] = msg[w]
  <2>1. /\ msg \in [Users -> Packet \cup {<<>>}] /\ todo \in [Users -> SUBSET Users]
        /\ step \in [Users -> {"read", "list", "send", "sync", "sync_list"}]
    BY DEF Fit, HandlersFit
  <2> DEFINE r == out[u][1]
  <2>2. /\ msg' = [msg EXCEPT ![u] = NewPacket(u, r)]
        /\ step' = [step EXCEPT ![u] = IF r.target = 0 THEN "send" ELSE "list"]
        /\ todo' = [todo EXCEPT ![u] = IF r.target = 0 THEN Users ELSE {}]
        /\ step[u] = "read" /\ todo[u] = {} /\ UNCHANGED <<newest, canvas, inbox, outOfOrder>>
    BY Adds
  <2> HIDE DEF r
  <2> QED
    BY <2>1, <2>2 DEF canvas
<1>2. SyncDue(v) => SyncDue(v)'
  BY <1>1 DEF SyncDue
<1>3. \A w \in Users : Owes(w, v) => Owes(w, v)' /\ msg'[w].seq = msg[w].seq
  <2>1. ASSUME NEW w \in Users, Owes(w, v) PROVE w # u
    BY <1>1, <2>1 DEF Owes
  <2> QED
    BY <1>1, <2>1 DEF Owes
<1>4. \A S : Faithful(events, lastSeq, newest[v], S) => Faithful(events', lastSeq', newest[v], S)
  BY FaithfulAdded DEF Fit, InboxesFit
<1>5. blind' = blind
  BY DEF AddEvent, window
<1> QED
  BY <1>1, <1>2, <1>3, <1>4, <1>5, SightedRests, DoomedRests, ViewRests

LEMMA ViewWhenRead ==
    ASSUME Fit, NEW u \in Users, ListActive(u) \/ SyncSnapshot(u) \/ SyncEvents(u),
           NEW v \in Users, View(v)
    PROVE  View(v)'
<1>1. /\ msg \in [Users -> Packet \cup {<<>>}] /\ todo \in [Users -> SUBSET Users]
      /\ step \in [Users -> {"read", "list", "send", "sync", "sync_list"}] /\ HandlerFit(u)
      /\ UNCHANGED <<newest, outOfOrder, lastSeq, events, items, inbox, blind>>
  BY DEF Fit, HandlersFit, ListActive, SyncSnapshot, SyncEvents, history, server, canvas, window
<1>2. \A w \in Users \ {u} : step'[w] = step[w] /\ todo'[w] = todo[w] /\ msg'[w] = msg[w]
  BY <1>1 DEF ListActive, SyncSnapshot, SyncEvents
<1>3. CASE ListActive(u)
  <2>1. /\ step[u] = "list" /\ todo[u] = {} /\ step'[u] = "send" /\ todo'[u] = Users
        /\ msg[u] \in Packet /\ msg[u].kind = "undo"
    BY <1>1, <1>3 DEF ListActive, HandlerFit, Fits
  <2>2. msg'[u].seq = msg[u].seq /\ msg'[u].kind = msg[u].kind
    BY <1>1, <1>3, <2>1 DEF ListActive, Packet
  <2>3. \A w \in Users : Owes(w, v) => Owes(w, v)' /\ msg'[w].seq = msg[w].seq
    BY <1>2, <2>1, <2>2 DEF Owes
  <2>4. SyncDue(v) => SyncDue(v)'
    BY <1>2, <2>1 DEF SyncDue
  <2> QED
    BY <1>1, <2>3, <2>4, SightedRests, DoomedRests, ViewRests
<1>4. CASE SyncSnapshot(u) \/ SyncEvents(u)
  <2>1. step[u] \in {"sync", "sync_list"} /\ todo[u] = {} /\ msg[u] \in Packet /\ msg[u].kind = "sync"
    BY <1>1, <1>4 DEF SyncSnapshot, SyncEvents, HandlerFit, Fits
  <2>2. \A w \in Users : Owes(w, v) => w # u
    BY <2>1 DEF Owes
  <2>3. \A w \in Users : Owes(w, v) => Owes(w, v)' /\ msg'[w].seq = msg[w].seq
    BY <1>2, <2>2 DEF Owes
  <2>4. CASE v = u
    <3>1. CASE SyncSnapshot(u)
      BY <1>1, <2>4, <3>1 DEF SyncSnapshot, SyncDue, View
    <3>2. CASE SyncEvents(u)
      <4>1. msg'[v].kind = "sync" /\ v \in todo'[v]
        BY <1>1, <2>1, <2>4, <3>2 DEF SyncEvents, Packet
      <4> QED
        BY <4>1 DEF SyncDue, View
    <3> QED
      BY <1>4, <3>1, <3>2
  <2>5. CASE v # u
    <3>1. SyncDue(v) => SyncDue(v)'
      BY <1>2, <2>5 DEF SyncDue
    <3> QED
      BY <1>1, <2>3, <3>1, SightedRests, DoomedRests, ViewRests
  <2> QED
    BY <2>4, <2>5
<1> QED
  BY <1>3, <1>4

\* A broadcast sent in its turn: what came before it has been sent, and it is
\* of the event with its number.
LEMMA DrawInTurn ==
    ASSUME Fit, NEW u \in Users, NEW v \in Users, Send(u, v), Numbered(v), View(v),
           msg[u].kind = "draw", newest[v] < msg[u].seq, Sighted(v),
           v \notin outOfOrder', ~SyncDue(v)', ~Doomed(v)'
    PROVE  Faithful(events, lastSeq, msg[u].seq, After(Seen(items[v], inbox[v]), msg[u]))
<1> DEFINE m == msg[u]
           k == m.seq
           S == Seen(items[v], inbox[v])
<1>1. /\ v \in todo[u] /\ step[u] = "send" /\ m \in Packet /\ k <= lastSeq
      /\ todo' = [todo EXCEPT ![u] = @ \ {v}]
      /\ step' = [step EXCEPT ![u] = IF todo[u] = {v} THEN "read" ELSE "send"]
      /\ msg' = [msg EXCEPT ![u] = IF todo[u] = {v} THEN <<>> ELSE msg[u]]
      /\ lastSeq \in Nat
  BY Sends DEF Fits
<1>2. /\ msg \in [Users -> Packet \cup {<<>>}] /\ todo \in [Users -> SUBSET Users]
      /\ step \in [Users -> {"read", "list", "send", "sync", "sync_list"}]
      /\ newest \in [Users -> Nat] /\ newest[v] \in Nat
      /\ \A e \in events : e.seq \in Nat /\ e.target \in Nat /\ e.target < e.seq
      /\ \A w \in Users : HandlerFit(w)
  BY DEF Fit, HandlersFit, InboxesFit, ServerFit, Event
<1>3. k \in Nat /\ newest'[v] = k /\ v \notin outOfOrder
  <2>1. k \in Nat
    BY <1>1 DEF Packet
  <2> QED
    BY <1>2, <2>1 DEF Send
<1>4. \A w \in Users \ {u} : step'[w] = step[w] /\ todo'[w] = todo[w] /\ msg'[w] = msg[w]
  BY <1>1, <1>2
<1> HIDE DEF m, k, S
<1>5. ~SyncDue(v)
  <2>1. CASE v = u
    BY <1>1, <2>1 DEF SyncDue
  <2>2. CASE v # u
    BY <1>4, <2>2 DEF SyncDue
  <2> QED
    BY <2>1, <2>2
<1>6. ASSUME NEW w \in Users, w # u, Owes(w, v) PROVE msg[w].seq \in Nat /\ k < msg[w].seq
  <2>1. Owes(w, v)' /\ msg'[w] = msg[w]
    BY <1>4, <1>6 DEF Owes
  <2>2. ~(msg[w].seq <= k)
    BY <1>3, <2>1 DEF Doomed
  <2>3. msg[w] \in Packet
    <3>1. step[w] # "read"
      BY <1>2, <1>6 DEF Owes, HandlerFit
    <3> QED
      BY <1>2, <3>1 DEF HandlerFit, Fits
  <2> QED
    BY <1>3, <2>2, <2>3 DEF Packet
<1>7. ~Doomed(v)
  BY <1>2, <1>3, <1>6 DEF Doomed, k, m
<1>8. Faithful(events, lastSeq, newest[v], S)
  BY <1>3, <1>5, <1>7 DEF View, S
<1>9. ASSUME NEW n \in newest[v] + 1 .. lastSeq, n <= k
      PROVE  n = k /\ Genuine(u)
  <2>1. Owed(v, n)
    BY <1>9 DEF Numbered
  <2>2. PICK w \in Users : Owes(w, v) /\ msg[w].seq = n /\ Genuine(w)
    BY <1>5, <2>1 DEF Owed, SyncDue
  <2>3. w = u
    <3>1. SUFFICES ASSUME w # u PROVE FALSE
      OBVIOUS
    <3>2. k < n
      BY <1>6, <2>2, <3>1
    <3> QED
      BY <1>2, <1>3, <1>9, <3>2
  <2> QED
    BY <2>2, <2>3 DEF k, m
<1>10. newest[v] + 1 = k /\ Genuine(u)
  <2>1. newest[v] < k
    BY DEF k, m
  <2>2. k \in newest[v] + 1 .. lastSeq /\ newest[v] + 1 \in newest[v] + 1 .. lastSeq
    BY <1>1, <1>2, <1>3, <2>1 DEF k, m
  <2>3. newest[v] + 1 <= k
    BY <1>2, <1>3, <2>1
  <2> QED
    BY <1>3, <1>9, <2>2, <2>3
<1>11. m.target = 0 /\ m.kind = "draw"
  BY Sends DEF Fits, m
<1>12. \A e \in events : e.seq = k => e.target = 0 /\ ItemOf(e) = ItemOf(m)
  BY <1>10, <1>11 DEF Genuine, k, m, ItemOf
<1>13. After(S, m) = {x \in S : x.seq # k} \cup {ItemOf(m)}
  BY <1>11 DEF After, k
<1> SUFFICES ASSUME \A f \in events : f.seq > k => f.target = 0
             PROVE  /\ \A e \in Active(events) : e.seq <= k => ItemOf(e) \in After(S, m)
                    /\ Unpruned(events, lastSeq) => \A x \in After(S, m) : x \in ItemsOf(Active(events))
  BY DEF Faithful, k, m, S
<1>14. \A f \in events : f.seq > newest[v] => f.target = 0
  <2>1. ASSUME NEW f \in events, f.seq > newest[v] PROVE f.seq > k \/ f.seq = k
    BY <1>2, <1>3, <1>10, <2>1
  <2> QED
    BY <1>12, <2>1
<1>15. ASSUME NEW e \in Active(events), e.seq <= k PROVE ItemOf(e) \in After(S, m)
  <2>1. e \in events
    BY DEF Active, Drawings
  <2>2. CASE e.seq = k
    BY <1>12, <1>13, <2>1, <2>2
  <2>3. CASE e.seq # k
    <3>1. e.seq <= newest[v]
      BY <1>2, <1>3, <1>10, <1>15, <2>1, <2>3
    <3>2. ItemOf(e) \in S
      BY <1>8, <1>14, <3>1 DEF Faithful
    <3> QED
      BY <1>13, <2>3, <3>2 DEF ItemOf
  <2> QED
    BY <2>2, <2>3
<1>16. ASSUME Unpruned(events, lastSeq) PROVE \A x \in After(S, m) : x \in ItemsOf(Active(events))
  <2>1. \A x \in S : x \in ItemsOf(Active(events))
    BY <1>8, <1>14, <1>16 DEF Faithful
  <2>2. PICK e \in events : e.seq = k
    <3>1. k \in 1 .. lastSeq
      BY <1>1, <1>2, <1>3, <1>10 DEF k, m
    <3> QED
      BY <1>16, <3>1 DEF Unpruned
  <2>3. \A f \in events : f.target # 0 => f.target # k
    BY <1>2, <1>3
  <2>4. e \in Active(events)
    BY <1>12, <2>2, <2>3 DEF Active, Drawings, UndoneSeqs, Undos
  <2>5. ItemOf(m) \in ItemsOf(Active(events))
    BY <1>12, <2>2, <2>4 DEF ItemsOf, ItemOf
  <2> QED
    BY <1>13, <2>1, <2>5
<1> QED
  BY <1>15, <1>16

LEMMA ViewWhenSent ==
    ASSUME Fit, NEW u \in Users, NEW w \in Users, Send(u, w), ListShows(u),
           NEW v \in Users, Numbered(v), View(v)
    PROVE  View(v)'
<1>1. /\ w \in todo[u] /\ step[u] = "send" /\ msg[u] \in Packet
      /\ msg[u].kind = "sync" => w = u /\ todo[u] = {u}
      /\ inbox' = [inbox EXCEPT ![w] = Append(@, msg[u])]
      /\ todo' = [todo EXCEPT ![u] = @ \ {w}]
      /\ step' = [step EXCEPT ![u] = IF todo[u] = {w} THEN "read" ELSE "send"]
      /\ msg' = [msg EXCEPT ![u] = IF todo[u] = {w} THEN <<>> ELSE msg[u]]
      /\ lastSeq' = lastSeq /\ events' = events /\ items' = items
  BY Sends DEF server, canvas
<1>2. /\ msg \in [Users -> Packet \cup {<<>>}] /\ todo \in [Users -> SUBSET Users]
      /\ step \in [Users -> {"read", "list", "send", "sync", "sync_list"}]
      /\ newest \in [Users -> Nat] /\ inbox \in [Users -> Seq(Packet)] /\ items[v] \in SUBSET Item
  BY DEF Fit, HandlersFit, InboxesFit, CanvasFit
<1>3. \A x \in Users \ {u} : step'[x] = step[x] /\ todo'[x] = todo[x] /\ msg'[x] = msg[x]
  BY <1>1, <1>2
<1>4. CASE v # w
  <2>1. /\ newest'[v] = newest[v] /\ inbox'[v] = inbox[v] /\ blind' = blind
        /\ v \in outOfOrder => v \in outOfOrder'
    BY <1>1, <1>2, <1>4 DEF Send, window
  <2>2. SyncDue(v) => SyncDue(v)'
    <3>1. CASE v = u
      BY <1>1, <1>4, <3>1 DEF SyncDue
    <3>2. CASE v # u
      BY <1>3, <3>2 DEF SyncDue
    <3> QED
      BY <3>1, <3>2
  <2>3. \A x \in Users : Owes(x, v) => Owes(x, v)' /\ msg'[x] = msg[x]
    <3>1. ASSUME NEW x \in Users, Owes(x, v) PROVE Owes(x, v)' /\ msg'[x] = msg[x]
      <4>1. CASE x = u
        BY <1>1, <1>2, <1>4, <3>1, <4>1 DEF Owes
      <4>2. CASE x # u
        BY <1>3, <3>1, <4>2 DEF Owes
      <4> QED
        BY <4>1, <4>2
    <3> QED
      BY <3>1
  <2> QED
    BY <1>1, <2>1, <2>2, <2>3, SightedRests, DoomedRests, ViewRests
<1>5. CASE v = w
  <2> DEFINE m == msg[u]
             late == IF m.kind = "sync" THEN m.seq < newest[v] ELSE m.seq <= newest[v]
  <2>1. /\ newest'[v] = IF late THEN newest[v] ELSE m.seq
        /\ late => v \in outOfOrder'
        /\ m.seq \in Nat /\ newest[v] \in Nat
    BY <1>1, <1>2, <1>5 DEF Send, Packet
  <2>2. Seen(items'[v], inbox'[v]) = After(Seen(items[v], inbox[v]), m)
    <3>1. inbox'[v] = Append(inbox[v], m) /\ inbox[v] \in Seq(Packet)
      BY <1>1, <1>2, <1>5
    <3> QED
      BY <1>1, <1>2, <3>1, SeenSent
  <2>3. CASE late
    BY <2>1, <2>3 DEF View
  <2>4. CASE ~late /\ m.kind # "draw"
    <3>1. Seen(items'[v], inbox'[v]) = m.list
      BY <2>2, <2>4 DEF After
    <3>2. Faithful(events, lastSeq, m.seq, m.list)
      BY <1>1, <2>4 DEF ListShows
    <3> QED
      BY <1>1, <2>1, <2>4, <3>1, <3>2 DEF View
  <2>5. CASE ~late /\ m.kind = "draw"
    <3>1. newest[v] < m.seq
      BY <2>1, <2>5
    <3>2. v \notin outOfOrder' /\ ~SyncDue(v)' /\ ~Doomed(v)' /\ Sighted(v) =>
             Faithful(events, lastSeq, m.seq, After(Seen(items[v], inbox[v]), m))
      BY <1>5, <2>5, <3>1, DrawInTurn
    <3>3. Sighted(v)' => Sighted(v)
      <4>1. inbox'[v] = Append(inbox[v], m) /\ inbox[v] \in Seq(Packet) /\ blind' = blind
        BY <1>1, <1>2, <1>5 DEF Send, window
      <4>2. \A i \in 1 .. Len(inbox'[v]) :
               inbox'[v][i] = m \/ (i \in 1 .. Len(inbox[v]) /\ inbox'[v][i] = inbox[v][i])
        BY <1>1, <4>1, AppendSeq
      <4> QED
        BY <2>5, <4>1, <4>2 DEF Sighted, Synced
    <3> QED
      BY <1>1, <2>1, <2>2, <2>5, <3>2, <3>3 DEF View
  <2> QED
    BY <2>3, <2>4, <2>5
<1> QED
  BY <1>4, <1>5

LEMMA ViewWhenHandled ==
    ASSUME Fit, NEW u \in Users, OnDrawBroadcast(u) \/ OnWhiteboardSync(u), NEW v \in Users, View(v)
    PROVE  View(v)'
<1>1. /\ UNCHANGED <<server, handler, history>> /\ inbox[u] # <<>>
      /\ inbox' = [inbox EXCEPT ![u] = Tail(@)]
      /\ blind' = blind \/ (inbox[u][1].kind = "sync" /\ blind' = blind \ {u})
  BY DEF OnDrawBroadcast, OnWhiteboardSync, window
<1>2. items' = [items EXCEPT ![u] = After(@, inbox[u][1])]
  <2>1. inbox[u][1].kind \in {"draw", "undo", "sync"}
    BY <1>1, Handles DEF Packet
  <2> QED
    BY <2>1 DEF OnDrawBroadcast, OnWhiteboardSync, Draw, Replace, After, ItemOf
<1>3. inbox \in [Users -> Seq(Packet)] /\ items \in [Users -> SUBSET Item]
  BY DEF Fit, InboxesFit, CanvasFit
<1>4. Seen(items'[v], inbox'[v]) = Seen(items[v], inbox[v])
  <2>1. CASE v = u
    BY <1>1, <1>2, <1>3, <2>1, SeenHandled
  <2>2. CASE v # u
    BY <1>1, <1>2, <1>3, <2>2
  <2> QED
    BY <2>1, <2>2
<1>5. Sighted(v)' => Sighted(v)
  <2>1. CASE v = u
    <3>1. inbox[u] \in Seq(Packet) /\ inbox'[u] = Tail(inbox[u]) /\ 1 \in 1 .. Len(inbox[u])
      BY <1>1, <1>3
    <3>2. inbox[u][1].kind = "sync" => Synced(inbox[u])
      BY <3>1 DEF Synced
    <3>3. Synced(inbox'[u]) => Synced(inbox[u])
      BY <1>1, <3>1, TakenSynced
    <3> QED
      BY <1>1, <2>1, <3>2, <3>3 DEF Sighted, Synced
  <2>2. CASE v # u
    BY <1>1, <1>3, <2>2 DEF Sighted, Synced
  <2> QED
    BY <2>1, <2>2
<1> QED
  BY <1>1, <1>4, <1>5, ViewRests DEF server, handler, history, SyncDue, Doomed, Owes

\* A window that is cleared, or drops a packet, is blind: what matters is the
\* next sync.
LEMMA ViewWhenTurned ==
    ASSUME Fit, NEW u \in Users, Turns(u), NEW v \in Users, View(v) PROVE View(v)'
<1>1. /\ UNCHANGED <<server, handler, history, inbox>> /\ blind' = blind \cup {u}
      /\ items'[u] = {} /\ \A w \in Users \ {u} : items'[w] = items[w]
      /\ inbox[v] \in Seq(Packet)
  BY Turned DEF Fit, InboxesFit
<1>2. Sighted(v)' => Sighted(v)
  BY <1>1, SightedRests
<1>3. CASE v # u
  BY <1>1, <1>2, <1>3, ViewRests DEF server, handler, history, SyncDue, Doomed, Owes
<1>4. CASE v = u
  <2>1. Sighted(v)' => Synced(inbox[v])
    BY <1>1, <1>4 DEF Sighted, Synced
  <2>2. Sighted(v)' => Seen(items'[v], inbox'[v]) = Seen(items[v], inbox[v])
    BY <1>1, <2>1, SeenSynced
  <2> QED
    BY <1>1, <1>2, <2>2 DEF View, server, handler, history, SyncDue, Doomed, Owes
<1> QED
  BY <1>3, <1>4

LEMMA ViewWhenDropped ==
    ASSUME Fit, WindowFit, NEW u \in Users, PacketDropped(u), NEW v \in Users, View(v) PROVE View(v)'
<1>1. /\ UNCHANGED <<server, handler, history, blind, items>> /\ inbox[u] # <<>> /\ u \in blind
      /\ inbox' = [inbox EXCEPT ![u] = Tail(@)]
      /\ inbox \in [Users -> Seq(Packet)] /\ items \in [Users -> SUBSET Item]
  BY DEF PacketDropped, window, canvas, WindowFit, Fit, InboxesFit, CanvasFit
<1>2. CASE v # u
  <2>1. inbox'[v] = inbox[v]
    BY <1>1, <1>2
  <2>2. Sighted(v)' => Sighted(v)
    BY <1>1, <2>1, SightedRests
  <2> QED
    BY <1>1, <2>1, <2>2, ViewRests DEF server, handler, history, SyncDue, Doomed, Owes
<1>3. CASE v = u
  <2> DEFINE b == inbox[v]
  <2>1. b \in Seq(Packet) /\ b # <<>> /\ inbox'[v] = Tail(b) /\ items[v] \in SUBSET Item
    BY <1>1, <1>3
  <2>2. Sighted(v)' => Synced(Tail(b)) /\ Sighted(v)
    BY <1>1, <1>3, <2>1, TakenSynced DEF Sighted, Synced
  <2>3. Tail(b) \in Seq(Packet) /\ Seen(After(items[v], b[1]), Tail(b)) = Seen(items[v], b)
    BY <2>1, SeenHandled
  <2>4. Sighted(v)' => Seen(items'[v], inbox'[v]) = Seen(items[v], b)
    BY <1>1, <2>1, <2>2, <2>3, SeenSynced
  <2> QED
    BY <1>1, <2>2, <2>4 DEF View, server, handler, history, SyncDue, Doomed, Owes
<1> QED
  BY <1>2, <1>3

LEMMA ViewWhenJoined ==
    ASSUME Fit, NEW u \in Users, JoinAgain(u) \/ Reconnect(u) \/ Restart(u), NEW v \in Users, View(v)
    PROVE  View(v)'
<1>1. /\ step[u] = "read" /\ todo[u] = {} /\ step'[u] = "sync"
      /\ \A w \in Users \ {u} : \/ step'[w] = step[w] /\ todo'[w] = todo[w]
                                \/ /\ step[w] = "send" /\ todo'[w] = todo[w] \ {u}
                                   /\ step'[w] = IF todo[w] = {u} THEN "read" ELSE "send"
      /\ \A w \in Users \ {u} : msg'[w] = msg[w]
  BY Joins
<1>2. UNCHANGED <<server, newest, outOfOrder>>
  BY Joins
<1>3. CASE v = u
  BY <1>1, <1>3 DEF View, SyncDue
<1>4. CASE v # u
  <2>1. \A w \in Users : Owes(w, v) => Owes(w, v)' /\ msg'[w] = msg[w]
    <3>1. ASSUME NEW w \in Users, Owes(w, v) PROVE w # u
      BY <1>1, <3>1 DEF Owes
    <3> QED
      BY <1>1, <1>4, <3>1 DEF Owes
  <2>2. SyncDue(v) => SyncDue(v)'
    BY <1>1, <1>4 DEF SyncDue
  <2>3. items'[v] = items[v] /\ inbox'[v] = inbox[v] /\ (v \in blind => v \in blind')
    <3>1. inbox \in [Users -> Seq(Packet)] /\ items \in [Users -> SUBSET Item]
      BY DEF Fit, InboxesFit, CanvasFit
    <3> QED
      BY <1>4, <3>1 DEF JoinAgain, Reconnect, Restart, ClearAll, canvas, window
  <2> QED
    BY <1>2, <2>1, <2>2, <2>3, SightedRests, DoomedRests, ViewRests DEF server
<1> QED
  BY <1>3, <1>4

LEMMA ViewKept ==
    ASSUME Fit, WindowFit, [Next]_vars, \A w \in Users : ListShows(w),
           NEW v \in Users, Numbered(v), View(v)
    PROVE  View(v)'
<1>1. ASSUME NEW u \in Users, ShapeCompleted(u) \/ OnUndoClicked(u) \/ OnRedoClicked(u)
      PROVE  View(v)'
  <2>1. UNCHANGED <<server, handler, inbox, canvas, history, blind>>
    BY <1>1 DEF ShapeCompleted, OnUndoClicked, OnRedoClicked, window
  <2> QED
    BY <2>1, SightedRests, ViewRests DEF server, handler, canvas, history, SyncDue, Doomed, Owes
<1>2. CASE TakeSnapshot
  <2>1. UNCHANGED <<handler, inbox, canvas, history, blind>>
    BY <1>2 DEF TakeSnapshot, window
  <2>2. \A S : Faithful(events, lastSeq, newest[v], S) => Faithful(events', lastSeq', newest[v], S)
    BY <1>2, FaithfulPruned DEF Fit, InboxesFit
  <2> QED
    BY <2>1, <2>2, SightedRests, ViewRests DEF handler, canvas, history, SyncDue, Doomed, Owes
<1>3. CASE UNCHANGED vars
  BY <1>3, SightedRests, ViewRests DEF vars, window, server, handler, canvas, history, SyncDue, Doomed, Owes
<1> QED
  BY <1>1, <1>2, <1>3, ViewWhenAdded, ViewWhenRead, ViewWhenSent, ViewWhenHandled, ViewWhenTurned,
     ViewWhenDropped, ViewWhenJoined DEF Next, Turns

\* A user who was sent the broadcasts in order, and whose window was at the
\* room since the last sync, sees the board of the server: what the user was
\* not sent is owed to the user, so once nothing is, the canvas has the last
\* number.
THEOREM ViewsInOrder == Spec => []InOrderView
<1> DEFINE Inv == Fit /\ WindowFit /\ \A v \in Users : Numbered(v) /\ ListShows(v) /\ View(v)
<1>1. Init => Inv
  <2> SUFFICES ASSUME Init, NEW v \in Users PROVE Numbered(v) /\ ListShows(v) /\ View(v)
    BY FitInit, WindowInit
  <2>1. /\ events = {} /\ lastSeq = 0 /\ newest[v] = 0 /\ step[v] = "read"
        /\ items[v] = {} /\ inbox[v] = <<>>
    BY DEF Init
  <2>2. Numbered(v)
    BY <2>1 DEF Numbered
  <2>3. Seen(items[v], inbox[v]) = {} /\ Active(events) = {}
    BY <2>1, SeenEmpty DEF Active, Drawings
  <2> QED
    BY <2>1, <2>2, <2>3 DEF ListShows, View, Faithful
<1>2. Inv /\ [Next]_vars => Inv'
  BY FitKept, WindowKept, NumberedKept, ListShowsKept, ViewKept
<1>3. Inv => InOrderView
  <2> SUFFICES ASSUME Inv, NEW u \in Users, Quiet(u), u \notin outOfOrder \cup blind
               PROVE  /\ ItemsOf(Active(events)) \subseteq items[u]
                      /\ lastSeq = Cardinality(events) => items[u] = ItemsOf(Active(events))
    BY DEF InOrderView
  <2>1. /\ inbox[u] = <<>> /\ step[u] = "read"
        /\ \A v \in Users : step[v] # "list" /\ u \notin todo[v]
    BY DEF Quiet
  <2>2. ~SyncDue(u) /\ \A w \in Users : ~Owes(w, u)
    BY <2>1 DEF SyncDue, Owes
  <2>3. ~Doomed(u) /\ \A n : ~Owed(u, n)
    BY <2>1, <2>2 DEF Doomed, Owed
  <2>4. newest[u] = lastSeq
    <3>1. newest[u] \in Nat /\ lastSeq \in Nat /\ newest[u] <= lastSeq
      BY DEF Fit, InboxesFit, ServerFit
    <3>2. \A n \in newest[u] + 1 .. lastSeq : FALSE
      BY <2>3 DEF Numbered
    <3> QED
      BY <3>1, <3>2
  <2>5. Faithful(events, lastSeq, lastSeq, items[u])
    <3>1. Seen(items[u], inbox[u]) = items[u]
      BY <2>1, SeenEmpty DEF Fit, CanvasFit
    <3> QED
      BY <2>2, <2>3, <2>4, <3>1 DEF View, Sighted
  <2>6. \A e \in events : e.seq \in Nat /\ e.seq <= lastSeq /\ ~(e.seq > lastSeq)
    BY DEF Fit, ServerFit, Event
  <2>7. \A e \in Active(events) : ItemOf(e) \in items[u]
    BY <2>5, <2>6 DEF Faithful, Active, Drawings
  <2>8. lastSeq = Cardinality(events) => \A x \in items[u] : x \in ItemsOf(Active(events))
    BY <2>5, <2>6, FullWhenCounted DEF Faithful
  <2> QED
    BY <2>7, <2>8 DEF ItemsOf, ItemOf
<1> HIDE DEF Inv
<1> QED
  BY <1>1, <1>2, <1>3, PTL DEF Spec

=============================================================================
