----------------------------- MODULE ViewStack ------------------------------
(***************************************************************************)
(* The stack of views and what of it reaches the screen (views/stack.rs,   *)
(* app/view_stack.rs, App::drain_scheduled_output in app.rs).  Below is    *)
(* the shell or one of the tmux connections, above it any number of        *)
(* Lector's own views.  A program may hold its output in a transaction; a  *)
(* view of Lector's passes the hold, and so does the first scene after the *)
(* last of them is closed, which must show the program as it was last      *)
(* shown and not the frame it is still drawing.  Scenes wait in the        *)
(* scheduler, may be refused for room, and are flushed later than the      *)
(* views change: a view that is gone from the stack can still be what the  *)
(* listener reads.                                                         *)
(*                                                                         *)
(* The state is one record: an action stands for a whole handler, with the *)
(* render and the announcement it ends in.                                 *)
(***************************************************************************)
EXTENDS Integers, Sequences, SequencesExt

CONSTANTS Root, Connections, Overlays,   \* the views, by the id each has for good
          MaxOutput,  \* bound: batches of output
          MaxChanges, \* bound: changes of the stack
          MaxDrops    \* bound: scenes refused for room, and fillings of the queue

VARIABLE stack
stackVars == <<stack>>

Bases == {Root} \cup Connections
Base(s) == s.bases[s.active]
Overlaid(s) == s.overlays # <<>>
Logical(s) == IF Overlaid(s) THEN Last(s.overlays) ELSE Base(s)
Held(s) == s.live[Base(s)].open # 0

Init ==
    stack = [bases |-> <<Root>>, overlays |-> <<>>, retired |-> {}, active |-> 1,
             transition |-> 0, token |-> 1,
             \* what a program drew last, and what of it was flushed last
             live |-> [b \in Bases |-> [rev |-> 0, open |-> 0]],
             shown |-> [b \in Bases |-> [rev |-> 0, open |-> 0]],
             \* the scheduler: the application's epoch, the passing render, the queue
             sync |-> "none", bypass |-> 0, release |-> 0, gen |-> 1,
             pending |-> <<>>, writing |-> <<>>, backlog |-> FALSE,
             owner |-> <<0, 0>>, retry |-> 0,
             presented |-> Root, announce |-> FALSE,
             \* history: the screen, the transactions that timed out, the speech
             screen |-> [view |-> Root, base |-> Root, frame |-> [rev |-> 0, open |-> 0]],
             expired |-> {}, misspoken |-> FALSE, unread |-> FALSE,
             epochs |-> 0, used |-> {Root}, outputs |-> 0, changes |-> 0, fills |-> 0, drops |-> 0]

-----------------------------------------------------------------------------
(* The stack.                                                              *)

Begin(s) == [s EXCEPT !.transition = s.token, !.token = @ + 1]

ClearOverlays(s) ==
    LET t == IF Overlaid(s) THEN Begin(s) ELSE s
    IN [t EXCEPT !.retired = @ \cup ToSet(s.overlays), !.overlays = <<>>]

PushOverlay(s, v) == [s EXCEPT !.overlays = Append(@, v)]
PushConnection(s, v) ==
    LET t == ClearOverlays(s)
    IN Begin([t EXCEPT !.bases = Append(@, v), !.active = Len(t.bases) + 1])

Pop(s) == LET t == [s EXCEPT !.overlays = Front(@), !.retired = @ \cup {Last(s.overlays)}]
          IN IF Overlaid(t) THEN t ELSE Begin(t)

IndexOf(s, v) == CHOOSE i \in DOMAIN s.bases : s.bases[i] = v
Activate(s, v) ==
    LET t == ClearOverlays(s)
        u == IF s.bases[s.active] # v THEN Begin(t) ELSE t
    IN [u EXCEPT !.active = IndexOf(s, v)]

\* The connections of a stack that are in A, in their order.  (SelectSeq, which
\* the provers know nothing of, as a recursive function.)
Only(bases, A) ==
    LET kept[i \in 0 .. Len(bases)] ==
          IF i = 0 THEN <<>>
          ELSE IF bases[i] \in A THEN Append(kept[i - 1], bases[i]) ELSE kept[i - 1]
    IN  kept[Len(bases)]

\* remove_tmux_connections
RemoveConnection(s, c) ==
    LET left == Only(s.bases, Bases \ {c})
        t == [s EXCEPT !.bases = left, !.retired = @ \cup {c},
                       !.active = IF Base(s) = c THEN Len(left)
                                  ELSE CHOOSE i \in DOMAIN left : left[i] = Base(s)]
    IN IF Base(s) = c THEN Begin(t) ELSE t

-----------------------------------------------------------------------------
(* A scene.                                                                *)

\* prune_retired_accessibility_views
PrunedOfAll(s) == [s EXCEPT !.retired = @ \cap {s.presented}]                 \* mutant
Kept(s) == {s.presented} \cup (UNION {s.pending[i].views : i \in DOMAIN s.pending})
                         \cup (UNION {s.writing[i].views : i \in DOMAIN s.writing})
Pruned(s) == [s EXCEPT !.retired = @ \cap Kept(s)]

\* composed_scene_with_bells: the program as last shown while a view covers it,
\* or while the scene that uncovers it has not been flushed.
Composed(s) == IF Overlaid(s) \/ (s.transition # 0 /\ Held(s) /\ s.sync # "ignoring")
               THEN s.shown[Base(s)] ELSE s.live[Base(s)]

\* capture_presentation_bundle: the frames that go with a scene.
Bundle(s, frame) == [gen |-> s.gen, view |-> Logical(s), base |-> Base(s),
                     frame |-> frame, views |-> {Base(s)} \cup ToSet(s.overlays)]

\* observe_application_synchronization
Observe(s, opened) ==
    [s EXCEPT !.sync = IF ~Held(s) THEN "none"
                       ELSE IF @ = "none" \/ (@ = "ignoring" /\ opened) THEN "active" ELSE @,
              !.release = IF ~Held(s) \/ (s.sync = "ignoring" /\ opened) THEN 0 ELSE @]

\* Without a hold the transition is over when its scene is accepted.
OutstandingAnyway(s) == s.transition                                           \* mutant
Outstanding(s) == IF Held(s) THEN s.transition ELSE 0

\* enqueue_render_with_accessibility, when there is room: what replaces a scene
\* that passes the hold, or that ends a timeout, takes its place.
Accepted(s, frame) ==
    LET asked == Overlaid(s) \/ s.transition # 0
        replaces(g) == s.pending # <<>> /\ s.pending[1].gen = g
        bypass == IF (asked /\ s.sync # "none") \/ replaces(s.bypass) THEN s.gen ELSE s.bypass
    IN [s EXCEPT !.pending = <<Bundle(s, frame)>>,
                 !.gen = @ + 1, !.bypass = bypass,
                 !.release = IF replaces(@) THEN s.gen ELSE @,
                 !.owner = IF ~asked THEN @
                           ELSE IF Held(s) /\ bypass # 0 /\ s.transition # 0
                                THEN <<bypass, s.transition>> ELSE <<0, 0>>,
                 !.retry = IF @ = s.transition THEN 0 ELSE @,
                 !.transition = Outstanding(s)]
Dropped(s, attempt) ==
    [s EXCEPT !.retry = IF s.transition # attempt THEN s.transition ELSE @, !.drops = @ + 1]

\* render_prepared_scene: a scene that finds no room is given up, and a pending
\* transition is noted for another try.
Room(s) == s.writing = <<>> /\ ~s.backlog
Rendered(s, opened, attempt) ==
    UNION {{Pruned(a) : a \in {Accepted(t, Composed(s))}}
             \cup IF Room(s) \/ s.drops >= MaxDrops THEN {} ELSE {Pruned(Dropped(t, attempt))}
           : t \in {Observe(s, opened)}}

-----------------------------------------------------------------------------
(* Announcements.                                                          *)

Busy(s) == s.pending # <<>> \/ s.writing # <<>>
Awaiting(s) == ~Overlaid(s) /\ s.live[Base(s)] # s.shown[Base(s)]
Ready(s) == s.presented = Logical(s) /\ ~Awaiting(s) /\ ~Busy(s)
Speak(s) == [s EXCEPT !.announce = FALSE,
                      !.misspoken = @ \/ s.screen.view # Logical(s)]
AnnounceViewChange(s) == IF Ready(s) THEN Speak(s) ELSE [s EXCEPT !.announce = TRUE]

-----------------------------------------------------------------------------
(* Handlers.                                                               *)

Do(states) == \E s \in states : stack' = s
Announced(states) == {AnnounceViewChange(s) : s \in states}
Change(s) == [s EXCEPT !.changes = @ + 1]

\* handle_view_action: Push; show_message and the like
Push(v) ==
    /\ stack.changes < MaxChanges /\ v \notin stack.used
    /\ Do(Announced(Rendered(PushOverlay([Change(stack) EXCEPT !.used = @ \cup {v}], v), FALSE, 0)))
\* handle_view_action: Pop
Close ==
    /\ Overlaid(stack) /\ stack.changes < MaxChanges
    /\ Do(Announced(Rendered(Pop(Change(stack)), FALSE, 0)))
\* start_tmux_connection
Connect(c) ==
    /\ stack.changes < MaxChanges /\ c \notin stack.used
    /\ Do(Rendered(PushConnection([Change(stack) EXCEPT !.used = @ \cup {c}], c), FALSE, 0))
\* activate_tmux_connection
Switch(c) ==
    /\ stack.changes < MaxChanges /\ c \in ToSet(stack.bases) \ {Root} /\ Logical(stack) # c
    /\ Do(Announced(Rendered(Activate(Change(stack), c), FALSE, 0)))
\* end_tmux_connection
Disconnect(c) ==
    /\ stack.changes < MaxChanges /\ c \in ToSet(stack.bases) \ {Root}
    /\ LET s == RemoveConnection(ClearOverlays(Change(stack)), c)
       IN Do(Announced(Rendered(Activate(s, Last(s.bases)), FALSE, 0)))

\* handle_pty and the pane's output: what nothing of is on the screen is not drawn.
Output(b, kind) ==
    /\ stack.outputs < MaxOutput /\ b \in ToSet(stack.bases)
    /\ kind = "close" => stack.live[b].open # 0
    /\ LET opens == kind = "open"
           s == [stack EXCEPT !.outputs = @ + 1,
                              !.epochs = IF opens THEN @ + 1 ELSE @,
                              !.live[b] = [rev |-> @.rev + 1,
                                           open |-> IF opens THEN stack.epochs + 1
                                                    ELSE IF kind = "close" THEN 0 ELSE @.open]]
           drawn == IF b = Root THEN Base(s) = Root \/ Overlaid(s) ELSE Base(s) = b /\ ~Overlaid(s)
       IN Do(IF drawn THEN Rendered(s, opens, 0) ELSE {s})

\* handle_tick
Tick ==
    /\ stack.announce /\ Ready(stack)
    /\ stack' = Speak(stack)

-----------------------------------------------------------------------------
(* drain_scheduled_output.                                                 *)

\* The end of every drain: another try for a refused transition, a scene for a
\* transaction that timed out.
Drained(s, timedOut) ==
    LET retry == IF s.retry = s.transition THEN s.retry ELSE 0
        again == (retry # 0 \/ (timedOut /\ ~Overlaid(s))) /\ ~Busy(s)
    IN IF again THEN UNION {Rendered(t, FALSE, retry) : t \in {[s EXCEPT !.retry = 0]}}
       ELSE {Pruned([s EXCEPT !.retry = retry])}

Start ==
    /\ stack.pending # <<>> /\ stack.writing = <<>> /\ ~stack.backlog
    /\ stack.sync = "active" => stack.bypass # 0
    /\ stack' = [stack EXCEPT !.writing = stack.pending, !.pending = <<>>]

\* apply_presented_bundle, to the views on the stack and the retired ones.
Published(s, r) ==
    [s EXCEPT !.screen = [view |-> r.view, base |-> r.base, frame |-> r.frame],
              !.shown[r.base] = IF r.frame.rev > @.rev THEN r.frame ELSE @,
              !.presented = r.view,
              !.unread = ~(r.views \subseteq ToSet(s.bases) \cup ToSet(s.overlays) \cup s.retired)]

Flush ==
    /\ stack.writing # <<>>
    /\ LET r == stack.writing[1]
           ends == r.gen = stack.bypass
           mine == ends /\ stack.owner[1] = r.gen
       IN \E s \in {[Published(stack, r) EXCEPT !.writing = <<>>,
                        !.release = IF @ = r.gen THEN 0 ELSE @,
                        !.bypass = IF ends THEN 0 ELSE @,
                        !.owner = IF mine THEN <<0, 0>> ELSE @,
                        !.transition = IF mine /\ @ = stack.owner[2] THEN 0 ELSE @]} :
            Do(Drained(s, stack.release = r.gen))

\* The transaction has been open for too long.
TimeOut ==
    /\ stack.sync = "active"
    /\ LET queued == stack.pending \o stack.writing
       IN \E s \in {[stack EXCEPT !.sync = "ignoring",
                                  !.release = IF queued = <<>> THEN 0 ELSE queued[1].gen,
                                  !.expired = @ \cup {stack.live[Base(stack)].open}]} :
            Do(IF queued = <<>> THEN Drained(s, TRUE) ELSE {s})

\* Other bytes for the terminal: bells, replies, what another tool wrote.
Fill ==
    /\ ~stack.backlog /\ stack.fills < MaxDrops
    /\ stack' = [stack EXCEPT !.backlog = TRUE, !.fills = @ + 1]
DrainBytes ==
    /\ stack.backlog
    /\ \E s \in {[stack EXCEPT !.backlog = FALSE]} : Do(Drained(s, FALSE))

Next ==
    \/ \E v \in Overlays : Push(v)
    \/ \E c \in Connections : Connect(c) \/ Switch(c) \/ Disconnect(c)
    \/ \E b \in Bases, kind \in {"plain", "open", "close"} : Output(b, kind)
    \/ Close \/ Tick \/ Start \/ Flush \/ TimeOut \/ Fill \/ DrainBytes

\* The event loop goes on as long as it has something to do.
LoopStep == Tick \/ Start \/ Flush \/ TimeOut \/ DrainBytes
Spec == Init /\ [][Next]_stackVars /\ WF_stackVars(LoopStep)

-----------------------------------------------------------------------------
(* Properties.                                                             *)

\* The listener reads the view whose scene is on the screen: that view is still
\* there, though the stack dropped it since, and a change of views is announced
\* only once the view it leads to is the one on the screen.
PresentedIsReadable ==
    /\ stack.presented \in ToSet(stack.bases) \cup ToSet(stack.overlays) \cup stack.retired
    /\ ~stack.unread /\ ~stack.misspoken

\* docs/architecture.md of synchronized output: "While the mode is open, the
\* scheduler holds the composed scene."  The frame a program is still drawing is
\* not on the screen unless its transaction timed out.
NoHiddenFrame == stack.screen.frame.open \in {0} \cup stack.expired

\* Every change of views reaches the screen and is announced, whatever the
\* programs hold, as long as no scene is refused for room.
Arrived == stack.drops > 0 \/ (stack.transition = 0 /\ ~stack.announce)
ChangesArrive == []<>Arrived
=============================================================================
