--------------------------- MODULE SurfaceThreads ----------------------------
(***************************************************************************)
(* The four threads of one surface and what they block on.                 *)
(*                                                                         *)
(*   main      the app thread: drains the app mailbox (App.tick), queues   *)
(*             work for the io and renderer threads, closes the surface    *)
(*   writer    the io thread (termio/Thread.zig): drains the termio        *)
(*             mailbox, runs the child's timers, joins the reader          *)
(*   reader    the parse stage of Exec.ReadThread, with the stream         *)
(*             handler it calls under the renderer state mutex             *)
(*   renderer  the renderer thread (renderer/Thread.zig)                   *)
(*                                                                         *)
(* The three mailboxes are BlockingQueues, here only their lengths: a push *)
(* that waits gets one signal from a pop and one look at the queue, after  *)
(* which its message is in or dropped.  The content of a message is chosen *)
(* when it is handled.  A wakeup is an async flag: notify sets it, the     *)
(* event loop clears it before it drains.                                  *)
(***************************************************************************)
EXTENDS Naturals

CONSTANTS
  Cap,          \* Cap[q]: the capacity of mailbox q (64 each)
  Emits,        \* mailboxes the child's output makes the reader push to
  WriterWork,   \* what messages ask of the writer
  AppForever,   \* threads besides the reader that push to the app with forever
  Aborts,       \* threads whose handlers and resizes may fail half way
  Closes,       \* whether the surface is closed
  StartFails,   \* whether threadEnter may fail
  MaxBatches,   \* bound: batches of output
  MaxEmits,     \* bound: messages per batch
  MaxSends      \* bound: messages the main thread and the timers send

Queues == {"app", "termio", "rend"}

ASSUME ConstantsAssumption ==
  /\ Cap \in [Queues -> Nat \ {0}]
  /\ Emits \subseteq {"app", "termio"}
  /\ WriterWork \subseteq {"write", "locked", "config", "resize"}
  /\ AppForever \subseteq {"writer", "renderer"}
  /\ Aborts \subseteq {"writer", "main", "renderer"}
  /\ Closes \in BOOLEAN /\ StartFails \in BOOLEAN
  /\ MaxBatches \in Nat /\ MaxEmits \in Nat /\ MaxSends \in Nat

VARIABLES
  len,        \* len[q]: how many messages mailbox q holds
  wake,       \* wake[t]: t's wakeup is set
  stop,       \* stop[t]: t's stop is set
  mutex,      \* who holds renderer.State.mutex, or "none"
  pc,         \* where each thread is
  back,       \* where the main thread goes on after it has sent
  push,       \* push[t]: the blocked push t is in
  signalled,  \* threads whose wait in a push has been signalled
  messaged,   \* StreamHandler.termio_messaged
  changed,    \* the terminal changed since the renderer last looked at it
  resize,     \* the writer's coalesce timer is armed
  quit,       \* the quit pipe has been written
  batches, emits, sends   \* what is left of the bounds

bounds == <<batches, emits, sends>>
vars == <<len, wake, stop, mutex, pc, push, signalled, messaged, resize, quit,
          batches, emits, sends, back, changed>>

Threads == {"main", "writer", "reader", "renderer"}
Consumer == [q \in Queues |-> CASE q = "app" -> "main"
                                [] q = "termio" -> "writer"
                                [] q = "rend" -> "renderer"]

Ended == {t \in Threads : pc[t] = "ended"}

(* The io thread of a failed start never comes back to its mailbox.        *)
Gone == Ended \cup {t \in Threads : pc[t] = "stranded"}
NoPush == [queue |-> "none", then |-> "none", relock |-> FALSE]

Init ==
  /\ len = [q \in Queues |-> 0]
  /\ wake = [t \in Threads |-> t = "renderer"]
  /\ stop = [t \in Threads |-> FALSE]
  /\ mutex = "none"
  /\ pc = [t \in Threads |->
             IF t \in {"writer", "reader"} THEN "start" ELSE "loop"]
  /\ push = [t \in Threads |-> NoPush]
  /\ signalled = {}
  /\ messaged = FALSE /\ resize = FALSE /\ quit = FALSE
  /\ back = "loop" /\ changed = FALSE
  /\ batches = MaxBatches /\ emits = 0 /\ sends = MaxSends

-----------------------------------------------------------------------------
(* Pushes, pops, notifications and the mutex.                              *)

(* Mutant: one message too many fits.                                      *)
RoomForOneMore(q) == len[q] <= Cap[q]

Room(q) == len[q] < Cap[q]
Put(q) == len' = [len EXCEPT ![q] = @ + 1]
Notify(t) == wake' = [wake EXCEPT ![t] = TRUE]
Goto(t, place) == pc' = [pc EXCEPT ![t] = place]

(* Wait in a forever push; go on to `then`, with the mutex if relock.      *)
Block(t, q, then, relock) ==
  /\ push' = [push EXCEPT ![t] =
                [queue |-> q, then |-> then, relock |-> relock]]
  /\ Goto(t, "push")

(* The wait returns: the message goes in, or is dropped if the slot went   *)
(* to another producer.  A push to the app wakes the app loop either way.  *)
ResumePush(t) ==
  /\ pc[t] = "push" /\ t \in signalled
  /\ LET q == push[t].queue
     IN  /\ IF Room(q) THEN Put(q) ELSE UNCHANGED len
         /\ IF q = "app" THEN Notify("main") ELSE UNCHANGED wake
  /\ signalled' = signalled \ {t}
  /\ Goto(t, IF push[t].relock THEN "relock" ELSE push[t].then)
  /\ IF push[t].relock
     THEN UNCHANGED push
     ELSE push' = [push EXCEPT ![t] = NoPush]
  /\ UNCHANGED <<stop, mutex, messaged, resize, quit, bounds, back, changed>>

(* Callers that gave the renderer state mutex up take it back.  The stream *)
(* handler's messageWriter marks the termio mailbox for its notification.  *)
Relock(t) ==
  /\ pc[t] = "relock" /\ mutex = "none"
  /\ mutex' = t
  /\ Goto(t, push[t].then)
  /\ push' = [push EXCEPT ![t] = NoPush]
  /\ messaged' = (messaged \/ (push[t].queue = "termio" /\ t # "main"))
  /\ UNCHANGED <<len, wake, stop, signalled, resize, quit, bounds, back,
                 changed>>

(* Blocked pushes on q that no pop has signalled yet.                      *)
Waiters(q) ==
  {t \in Threads : pc[t] = "push" /\ push[t].queue = q} \ signalled

(* Mutant: a pop signals nobody.                                           *)
TakeSilently(q) ==
  /\ len[q] > 0
  /\ len' = [len EXCEPT ![q] = @ - 1]
  /\ UNCHANGED signalled

Take(q) ==
  /\ len[q] > 0
  /\ len' = [len EXCEPT ![q] = @ - 1]
  /\ \/ \E t \in Waiters(q) : signalled' = signalled \cup {t}
     \/ Waiters(q) = {} /\ UNCHANGED signalled

-----------------------------------------------------------------------------
(* The reader: processOutput and the stream handler.                       *)

BatchArrives ==
  /\ pc["reader"] = "loop"
  /\ batches > 0
  /\ batches' = batches - 1 /\ emits' = MaxEmits
  /\ Goto("reader", "lock")
  /\ UNCHANGED <<len, wake, stop, mutex, push, signalled, messaged, resize,
                 quit, sends, back, changed>>

(* Mutant: no render is queued.                                            *)
BeginParseUnseen ==
  /\ pc["reader"] = "lock" /\ mutex = "none"
  /\ mutex' = "reader"
  /\ Goto("reader", "cursor")
  /\ UNCHANGED <<len, wake, stop, push, signalled, messaged, resize, quit,
                 bounds, back, changed>>

(* Take the mutex, and queue a render first.                               *)
BeginParse ==
  /\ pc["reader"] = "lock" /\ mutex = "none"
  /\ mutex' = "reader"
  /\ Notify("renderer")
  /\ Goto("reader", "cursor")
  /\ UNCHANGED <<len, stop, push, signalled, messaged, resize, quit, bounds,
                 back, changed>>

(* At most every 500ms, an instant push of reset_cursor_blink.             *)
ResetCursorBlink ==
  /\ pc["reader"] = "cursor"
  /\ \/ Room("rend") /\ Put("rend")
     \/ UNCHANGED len
  /\ Goto("reader", "parse")
  /\ UNCHANGED <<wake, stop, mutex, push, signalled, messaged, resize, quit,
                 bounds, back, changed>>

(* Output up to a sequence that sends a message has changed the terminal.  *)
Emit(q) ==
  /\ pc["reader"] = "parse"
  /\ q \in Emits
  /\ emits > 0 /\ emits' = emits - 1
  /\ changed' = TRUE
  /\ UNCHANGED <<stop, signalled, resize, quit, batches, sends, back>>

(* surfaceMessageWriter: instant, else unlock, forever, relock.            *)
EmitApp ==
  /\ Emit("app")
  /\ Notify("main")
  /\ \/ Room("app") /\ Put("app") /\ UNCHANGED <<mutex, pc, push>>
     \/ /\ ~Room("app")
        /\ mutex' = "none"
        /\ Block("reader", "app", "parse", TRUE)
        /\ UNCHANGED len
  /\ UNCHANGED messaged

(* Mutants: the mutex is kept; the writer is not notified.                 *)
EmitTermioLocked ==
  /\ Emit("termio")
  /\ \/ Room("termio") /\ Put("termio") /\ messaged' = TRUE
        /\ UNCHANGED <<wake, pc, push>>
     \/ /\ ~Room("termio")
        /\ Notify("writer")
        /\ Block("reader", "termio", "parse", FALSE)
        /\ UNCHANGED <<len, messaged>>
  /\ UNCHANGED mutex

EmitTermioUnnotified ==
  /\ Emit("termio")
  /\ \/ Room("termio") /\ Put("termio") /\ messaged' = TRUE
        /\ UNCHANGED <<mutex, pc, push>>
     \/ /\ ~Room("termio")
        /\ mutex' = "none"
        /\ Block("reader", "termio", "parse", TRUE)
        /\ UNCHANGED <<len, messaged>>
  /\ UNCHANGED wake

(* messageWriter, Mailbox.send: instant, else notify, unlock, forever,     *)
(* relock.                                                                 *)
EmitTermio ==
  /\ Emit("termio")
  /\ \/ Room("termio") /\ Put("termio") /\ messaged' = TRUE
        /\ UNCHANGED <<wake, mutex, pc, push>>
     \/ /\ ~Room("termio")
        /\ Notify("writer")
        /\ mutex' = "none"
        /\ Block("reader", "termio", "parse", TRUE)
        /\ UNCHANGED <<len, messaged>>

(* Mutant: termio_messaged is reset without the notification.              *)
EndParseUnnotified ==
  /\ pc["reader"] = "parse"
  /\ messaged' = FALSE
  /\ mutex' = "none"
  /\ Goto("reader", "loop")
  /\ changed' = TRUE
  /\ UNCHANGED <<len, wake, stop, push, signalled, resize, quit, bounds, back>>

(* The rest of the batch, and the notification that is due.                *)
EndParse ==
  /\ pc["reader"] = "parse"
  /\ IF messaged THEN Notify("writer") ELSE UNCHANGED wake
  /\ messaged' = FALSE
  /\ mutex' = "none"
  /\ Goto("reader", "loop")
  /\ changed' = TRUE
  /\ UNCHANGED <<len, stop, push, signalled, resize, quit, bounds, back>>

(* The stream is over, by quit or by a hangup, or nobody came to read it.  *)
ReaderEnds ==
  /\ pc["reader"] = "loop"
  /\ Goto("reader", "ended")
  /\ UNCHANGED <<len, wake, stop, mutex, push, signalled, messaged, resize,
                 quit, bounds, back, changed>>

Reader ==
  BeginParse \/ ResetCursorBlink \/ EmitApp \/ EmitTermio \/ EndParse
  \/ (quit /\ ReaderEnds)

-----------------------------------------------------------------------------
(* The writer.                                                             *)

(* threadEnter starts the read thread.                                     *)
WriterEnters ==
  /\ pc["writer"] = "start"
  /\ pc' = [pc EXCEPT !["writer"] = "enter", !["reader"] = "loop"]
  /\ UNCHANGED <<len, wake, stop, mutex, push, signalled, messaged, resize,
                 quit, bounds, back, changed>>

(* wakeup and stop are waited on from here.                                *)
WriterStarts ==
  /\ pc["writer"] = "enter"
  /\ Goto("writer", "loop")
  /\ UNCHANGED <<len, wake, stop, mutex, push, signalled, messaged, resize,
                 quit, bounds, back, changed>>

(* threadEnter fails before it has a read thread: the error is printed to  *)
(* the screen, and the loop that is to drain the mailbox ends at once, for *)
(* nothing is registered with it.                                          *)
WriterStartFails ==
  /\ StartFails
  /\ pc["writer"] = "start" /\ mutex = "none"
  /\ pc' = [pc EXCEPT !["writer"] = "ended", !["reader"] = "ended"]
  /\ changed' = TRUE
  /\ UNCHANGED <<len, wake, stop, mutex, push, signalled, messaged, resize,
                 quit, bounds, back>>

(* threadEnter fails after it: a configured input cannot be read or        *)
(* queued.  The errdefer runs threadExit.                                  *)
WriterInputFails ==
  /\ StartFails
  /\ pc["writer"] = "enter"
  /\ quit' = TRUE
  /\ Goto("writer", "abandon")
  /\ UNCHANGED <<len, wake, stop, mutex, push, signalled, messaged, resize,
                 bounds, back, changed>>

(* The read thread is joined and the error printed.  The process watcher   *)
(* and the termios timer are in the loop by now, wakeup and stop are not.  *)
WriterAbandons ==
  /\ pc["writer"] = "abandon" /\ pc["reader"] = "ended" /\ mutex = "none"
  /\ Goto("writer", "stranded")
  /\ changed' = TRUE
  /\ UNCHANGED <<len, wake, stop, mutex, push, signalled, messaged, resize,
                 quit, bounds, back>>

(* Their callbacks use the frame of a function that has returned: they may *)
(* re-arm the timer for ever, tell the app, or let the loop run dry.       *)
WriterRunsDry ==
  /\ pc["writer"] = "stranded"
  /\ Goto("writer", "ended")
  /\ UNCHANGED <<len, wake, stop, mutex, push, signalled, messaged, resize,
                 quit, bounds, back, changed>>

WriterWakes ==
  /\ pc["writer"] = "loop" /\ wake["writer"]
  /\ wake' = [wake EXCEPT !["writer"] = FALSE]
  /\ Goto("writer", "drain")
  /\ UNCHANGED <<len, stop, mutex, push, signalled, messaged, resize, quit,
                 bounds, back, changed>>

Draining == pc["writer"] \in {"drain", "redraw"}

(* A handler returns an error, which ends the drain.                       *)
WriterAborts ==
  /\ "writer" \in Aborts
  /\ Draining
  /\ Take("termio")
  /\ Goto("writer", "loop")
  /\ UNCHANGED <<wake, stop, mutex, push, messaged, resize, quit, bounds,
                 back, changed>>

(* drainMailbox pops the next message and handles it.                      *)
WriterPops ==
  /\ Draining
  /\ Take("termio")
  /\ \E work \in WriterWork :
       /\ resize' = (resize \/ work = "resize")
       /\ Goto("writer",
               IF work \in {"locked", "config"} THEN work ELSE "redraw")
  /\ UNCHANGED <<wake, stop, mutex, push, messaged, quit, bounds, back,
                 changed>>

(* The mailbox is empty: one redraw for all that was handled.              *)
WriterDrained ==
  /\ Draining
  /\ len["termio"] = 0
  /\ IF pc["writer"] = "redraw" THEN Notify("renderer") ELSE UNCHANGED wake
  /\ Goto("writer", "loop")
  /\ UNCHANGED <<len, stop, mutex, push, signalled, messaged, resize, quit,
                 bounds, back, changed>>

(* A handler that takes the renderer state mutex and releases it.          *)
WriterLocked ==
  /\ pc["writer"] = "locked" /\ mutex = "none"
  /\ Goto("writer", "redraw")
  /\ changed' = TRUE
  /\ UNCHANGED <<len, wake, stop, mutex, push, signalled, messaged, resize,
                 quit, bounds, back>>

(* changeConfig: under the mutex, the stream handler's messageWriter sends *)
(* a color scheme report to the writer's own mailbox.  If that is full the *)
(* push never returns: nobody else pops, so nobody signals.                *)
WriterConfig ==
  /\ pc["writer"] = "config" /\ mutex = "none"
  /\ \/ /\ Room("termio") /\ Put("termio")
        /\ messaged' = TRUE
        /\ Goto("writer", "redraw")
        /\ UNCHANGED <<wake, push>>
     \/ /\ ~Room("termio")
        /\ Notify("writer")
        /\ Block("writer", "termio", "config", TRUE)
        /\ UNCHANGED <<len, messaged>>
  /\ changed' = TRUE
  /\ UNCHANGED <<stop, mutex, signalled, resize, quit, bounds, back>>

(* The coalesce timer: resize under the mutex, then mail the renderer with *)
(* forever, then notify it.                                                *)
WriterResizes ==
  /\ pc["writer"] = "loop" /\ resize /\ mutex = "none"
  /\ resize' = FALSE
  /\ \/ Room("rend") /\ Put("rend") /\ Goto("writer", "resized")
        /\ UNCHANGED push
     \/ ~Room("rend") /\ Block("writer", "rend", "resized", FALSE)
        /\ UNCHANGED len
  /\ changed' = TRUE
  /\ UNCHANGED <<wake, stop, mutex, signalled, messaged, quit, bounds, back>>

(* The pty or the terminal refuses the size, before or within the critical *)
(* section: the renderer is not told.                                      *)
WriterResizeFails ==
  /\ "writer" \in Aborts
  /\ pc["writer"] = "loop" /\ resize
  /\ resize' = FALSE
  /\ \/ UNCHANGED changed
     \/ mutex = "none" /\ changed' = TRUE
  /\ UNCHANGED <<len, wake, stop, mutex, pc, push, signalled, messaged, quit,
                 bounds, back>>

WriterResized ==
  /\ pc["writer"] = "resized"
  /\ Notify("renderer")
  /\ Goto("writer", "loop")
  /\ UNCHANGED <<len, stop, mutex, push, signalled, messaged, resize, quit,
                 bounds, back, changed>>

(* A forever push to the app, before t goes on to `then`: child_exited and *)
(* password_input from the writer's loop, renderer_health from a completed *)
(* frame.                                                                  *)
TellApp(t, then) ==
  /\ t \in AppForever
  /\ sends > 0 /\ sends' = sends - 1
  /\ \/ Room("app") /\ Put("app") /\ Notify("main") /\ Goto(t, then)
        /\ UNCHANGED push
     \/ ~Room("app") /\ Block(t, "app", then, FALSE)
        /\ UNCHANGED <<len, wake>>
  /\ UNCHANGED <<stop, mutex, signalled, messaged, resize, quit, batches,
                 emits, back, changed>>

WriterTellsApp ==
  pc["writer"] \in {"loop", "stranded"} /\ TellApp("writer", pc["writer"])

(* Mutant: the quit pipe is not written.                                   *)
WriterStopsQuietly ==
  /\ pc["writer"] = "loop" /\ stop["writer"]
  /\ Goto("writer", "join")
  /\ UNCHANGED <<len, wake, stop, mutex, push, signalled, messaged, resize,
                 quit, bounds, back, changed>>

(* stopCallback, then Exec.threadExit: stop the child, write the quit pipe *)
(* and join the read thread.                                               *)
WriterStops ==
  /\ pc["writer"] = "loop" /\ stop["writer"]
  /\ quit' = TRUE
  /\ Goto("writer", "join")
  /\ UNCHANGED <<len, wake, stop, mutex, push, signalled, messaged, resize,
                 bounds, back, changed>>

WriterJoins ==
  /\ pc["writer"] = "join" /\ pc["reader"] = "ended"
  /\ Goto("writer", "ended")
  /\ UNCHANGED <<len, wake, stop, mutex, push, signalled, messaged, resize,
                 quit, bounds, back, changed>>

Writer ==
  WriterEnters \/ WriterStarts \/ WriterAbandons
  \/ WriterWakes \/ WriterPops \/ WriterDrained
  \/ WriterLocked \/ WriterConfig \/ WriterResizes
  \/ WriterResized \/ WriterStops \/ WriterJoins

-----------------------------------------------------------------------------
(* The renderer.                                                           *)

RendererWakes ==
  /\ pc["renderer"] = "loop" /\ wake["renderer"]
  /\ wake' = [wake EXCEPT !["renderer"] = FALSE]
  /\ Goto("renderer", "drain")
  /\ UNCHANGED <<len, stop, mutex, push, signalled, messaged, resize, quit,
                 bounds, back, changed>>

(* drainMailbox pops a message; one that makes the surface visible again   *)
(* renders at once, in the middle of the drain.                            *)
RendererPops ==
  /\ pc["renderer"] = "drain"
  /\ Take("rend")
  /\ \E place \in {"drain", "show"} : Goto("renderer", place)
  /\ UNCHANGED <<wake, stop, mutex, push, messaged, resize, quit, bounds,
                 back, changed>>

(* A handler returns an error: the drain ends, the render follows.         *)
RendererAborts ==
  /\ "renderer" \in Aborts
  /\ pc["renderer"] = "drain"
  /\ Take("rend")
  /\ Goto("renderer", "update")
  /\ UNCHANGED <<wake, stop, mutex, push, messaged, resize, quit, bounds,
                 back, changed>>

RendererDrained ==
  /\ pc["renderer"] = "drain" /\ len["rend"] = 0
  /\ Goto("renderer", "update")
  /\ UNCHANGED <<len, wake, stop, mutex, push, signalled, messaged, resize,
                 quit, bounds, back, changed>>

(* updateFrame looks at the terminal under the renderer state mutex; in a  *)
(* synchronized update it takes nothing from it.                           *)
RendererUpdates ==
  /\ pc["renderer"] \in {"update", "show"} /\ mutex = "none"
  /\ Goto("renderer", IF pc["renderer"] = "show" THEN "show draw" ELSE "draw")
  /\ changed' = FALSE
  /\ UNCHANGED <<len, wake, stop, mutex, push, signalled, messaged, resize,
                 quit, bounds, back>>

(* Where a render goes back to: the drain it was called from, or the loop. *)
AfterDraw == IF pc["renderer"] = "show draw" THEN "drain" ELSE "loop"

(* drawFrame: an instant push of the scrollbar, or nothing to tell.        *)
RendererDraws ==
  /\ pc["renderer"] \in {"draw", "show draw"}
  /\ \/ sends > 0 /\ sends' = sends - 1 /\ Room("app") /\ Put("app")
        /\ Notify("main")
     \/ UNCHANGED <<sends, len, wake>>
  /\ Goto("renderer", AfterDraw)
  /\ UNCHANGED <<stop, mutex, push, signalled, messaged, resize, quit,
                 batches, emits, back, changed>>

RendererTellsApp ==
  pc["renderer"] \in {"draw", "show draw"} /\ TellApp("renderer", AfterDraw)

RendererStops ==
  /\ pc["renderer"] = "loop" /\ stop["renderer"]
  /\ Goto("renderer", "ended")
  /\ UNCHANGED <<len, wake, stop, mutex, push, signalled, messaged, resize,
                 quit, bounds, back, changed>>

Renderer ==
  RendererWakes \/ RendererPops \/ RendererDrained \/ RendererUpdates
  \/ RendererDraws \/ RendererStops

-----------------------------------------------------------------------------
(* The main thread.                                                        *)

MainTicks ==
  /\ pc["main"] = "loop" /\ wake["main"]
  /\ wake' = [wake EXCEPT !["main"] = FALSE]
  /\ Goto("main", "drain")
  /\ UNCHANGED <<len, stop, mutex, push, signalled, messaged, resize, quit,
                 bounds, back, changed>>

(* App.drainMailbox pops a message; its handler may send one in turn.      *)
MainPops ==
  /\ pc["main"] = "drain"
  /\ Take("app")
  /\ \E place \in {"drain", "handle"} : Goto("main", place)
  /\ UNCHANGED <<wake, stop, mutex, push, messaged, resize, quit, bounds,
                 back, changed>>

(* A handler returns an error, or the message is quit: the drain ends.     *)
MainAborts ==
  /\ "main" \in Aborts
  /\ pc["main"] = "drain"
  /\ Take("app")
  /\ Goto("main", "loop")
  /\ UNCHANGED <<wake, stop, mutex, push, messaged, resize, quit, bounds,
                 back, changed>>

MainHandled ==
  /\ pc["main"] = "handle"
  /\ Goto("main", "drain")
  /\ UNCHANGED <<len, wake, stop, mutex, push, signalled, messaged, resize,
                 quit, bounds, back, changed>>

MainDrained ==
  /\ pc["main"] = "drain" /\ len["app"] = 0
  /\ Goto("main", "loop")
  /\ UNCHANGED <<len, wake, stop, mutex, push, signalled, messaged, resize,
                 quit, bounds, back, changed>>

(* An input event of the surface or the handler of a message sends.        *)
Sending ==
  /\ pc["main"] \in {"loop", "handle"}
  /\ sends > 0 /\ sends' = sends - 1
  /\ back' = IF pc["main"] = "handle" THEN "drain" ELSE "loop"
  /\ UNCHANGED <<stop, signalled, messaged, resize, quit, batches, emits,
                 changed>>

(* queueIo: Termio.queueMessage with the mutex unlocked.                   *)
MainSendsTermio ==
  /\ Sending
  /\ \/ Room("termio") /\ Put("termio") /\ Goto("main", "notify writer")
        /\ UNCHANGED <<wake, push>>
     \/ /\ ~Room("termio")
        /\ Notify("writer")
        /\ Block("main", "termio", "notify writer", FALSE)
        /\ UNCHANGED len
  /\ UNCHANGED <<mutex, changed>>

(* queueIo with the mutex locked, by a handler that holds it.              *)
MainSendsLocked ==
  /\ Sending
  /\ mutex = "none"
  /\ \/ Room("termio") /\ Put("termio") /\ mutex' = "main"
        /\ Goto("main", "notify writer")
        /\ UNCHANGED <<wake, push>>
     \/ /\ ~Room("termio")
        /\ Notify("writer")
        /\ Block("main", "termio", "notify writer", TRUE)
        /\ UNCHANGED <<len, mutex>>

(* A forever push to the renderer mailbox, then its notification.          *)
MainSendsRend ==
  /\ Sending
  /\ \/ Room("rend") /\ Put("rend") /\ Goto("main", "notify renderer")
        /\ UNCHANGED push
     \/ ~Room("rend") /\ Block("main", "rend", "notify renderer", FALSE)
        /\ UNCHANGED len
  /\ UNCHANGED <<wake, mutex, changed>>

(* Mutant: no notification after a send.                                   *)
MainForgetsToNotify ==
  /\ pc["main"] \in {"notify writer", "notify renderer"}
  /\ mutex' = IF mutex = "main" THEN "none" ELSE mutex
  /\ Goto("main", back)
  /\ UNCHANGED <<len, wake, stop, push, signalled, messaged, resize, quit,
                 bounds, back, changed>>

(* The notification after a send, which releases the mutex if it is held.  *)
MainNotifies ==
  /\ \/ pc["main"] = "notify writer" /\ Notify("writer")
     \/ pc["main"] = "notify renderer" /\ Notify("renderer")
  /\ mutex' = IF mutex = "main" THEN "none" ELSE mutex
  /\ Goto("main", back)
  /\ UNCHANGED <<len, stop, push, signalled, messaged, resize, quit, bounds,
                 back, changed>>

(* Surface.deinit: stop and join the renderer, then the io thread.         *)
MainCloses ==
  /\ Closes
  /\ pc["main"] \in {"loop", "handle"}
  /\ stop' = [stop EXCEPT !["renderer"] = TRUE]
  /\ Goto("main", "join renderer")
  /\ UNCHANGED <<len, wake, mutex, push, signalled, messaged, resize, quit,
                 bounds, back, changed>>

MainJoinsRenderer ==
  /\ pc["main"] = "join renderer" /\ pc["renderer"] = "ended"
  /\ stop' = [stop EXCEPT !["writer"] = TRUE]
  /\ Goto("main", "join writer")
  /\ UNCHANGED <<len, wake, mutex, push, signalled, messaged, resize, quit,
                 bounds, back, changed>>

MainJoinsWriter ==
  /\ pc["main"] = "join writer" /\ pc["writer"] = "ended"
  /\ Goto("main", "closed")
  /\ UNCHANGED <<len, wake, stop, mutex, push, signalled, messaged, resize,
                 quit, bounds, back, changed>>

(* What the main thread does by itself, and what users make it do.         *)
Main ==
  MainTicks \/ MainPops \/ MainHandled \/ MainDrained \/ MainNotifies
  \/ MainJoinsRenderer \/ MainJoinsWriter

UserInput == MainSendsTermio \/ MainSendsLocked \/ MainSendsRend \/ MainCloses

-----------------------------------------------------------------------------
Mailing(t) == ResumePush(t) \/ Relock(t)

Next ==
  \/ Reader \/ Writer \/ Renderer \/ Main
  \/ \E t \in Threads : Mailing(t)
  \/ BatchArrives \/ ReaderEnds \/ UserInput
  \/ WriterStartFails \/ WriterInputFails \/ WriterRunsDry
  \/ WriterTellsApp \/ RendererTellsApp
  \/ WriterAborts \/ WriterResizeFails \/ RendererAborts \/ MainAborts

Spec == Init /\ [][Next]_vars

(* Every thread that can run does; nothing is assumed of the user, the     *)
(* child and failures.  Within the bounds every thread stops taking the    *)
(* mutex at some time, so that weak fairness gives it to the others.       *)
Fairness ==
  /\ WF_vars(Reader \/ Mailing("reader"))
  /\ WF_vars(Writer \/ Mailing("writer"))
  /\ WF_vars(Renderer \/ Mailing("renderer"))
  /\ WF_vars(Main \/ Mailing("main"))

FairSpec == Spec /\ Fairness

-----------------------------------------------------------------------------
(* Properties                                                              *)

TypeOK ==
  /\ DOMAIN len = Queues /\ \A q \in Queues : len[q] \in 0 .. Cap[q]
  /\ wake \in [Threads -> BOOLEAN] /\ stop \in [Threads -> BOOLEAN]
  /\ mutex \in Threads \cup {"none"}
  /\ pc["main"] \in {"loop", "drain", "handle", "push", "relock",
                     "notify writer", "notify renderer", "join renderer",
                     "join writer", "closed"}
  /\ pc["writer"] \in {"start", "enter", "abandon", "stranded", "loop",
                       "drain", "redraw", "locked", "config", "push",
                       "relock", "resized", "join", "ended"}
  /\ pc["reader"] \in {"start", "loop", "lock", "cursor", "parse", "push",
                       "relock", "ended"}
  /\ pc["renderer"] \in {"loop", "drain", "show", "show draw", "update",
                         "draw", "push", "ended"}
  /\ DOMAIN pc = Threads /\ DOMAIN push = Threads
  /\ \A t \in Threads : push[t].queue \in Queues \cup {"none"}
  /\ signalled \subseteq {t \in Threads : pc[t] = "push"}
  /\ messaged \in BOOLEAN /\ resize \in BOOLEAN /\ quit \in BOOLEAN
  /\ back \in {"loop", "drain"} /\ changed \in BOOLEAN
  /\ batches \in 0 .. MaxBatches /\ emits \in 0 .. MaxEmits
  /\ sends \in 0 .. MaxSends

(* What Mailbox.send and surfaceMessageWriter give the mutex up for: no    *)
(* thread sleeps in a push with the renderer state mutex in hand, so a     *)
(* thread that waits for the mutex waits for a critical section only.      *)
NoBlockedHolder == \A t \in Threads : pc[t] = "push" => mutex # t

(* The threads that t cannot go on without.                                *)
Blockers(t) ==
  CASE pc[t] = "push" /\ t \notin signalled -> {Consumer[push[t].queue]}
    [] pc[t] \in {"lock", "locked", "config", "update", "show", "relock"} ->
         {mutex} \ {"none"}
    [] pc[t] = "join renderer" -> {"renderer"} \ Ended
    [] pc[t] = "join writer" -> {"writer"} \ Ended
    [] pc[t] = "join" -> {"reader"} \ Ended
    [] pc[t] = "abandon" -> ({"reader"} \ Ended) \cup ({mutex} \ {"none"})
    [] OTHER -> {}

(* t can go on once threads that are neither in S nor gone have moved.     *)
Free(t, S) == Blockers(t) \cap (S \cup Gone) = {}

(* No threads wait for each other in a circle, or for a thread that is     *)
(* gone: through full mailboxes, the mutex and joins.                      *)
NoWaitCycle ==
  \A S \in (SUBSET Threads) \ {{}} : \E t \in S : Free(t, S)

(* Each thread may wait for those before it in the order renderer, writer, *)
(* main, reader, and for a holder of the mutex.  The waits of the code     *)
(* that go against this: child_exited, password_input and renderer_health  *)
(* to the app; the color scheme report of changeConfig to the io thread's  *)
(* own mailbox; the join of the read thread; and two waits for a thread    *)
(* that is gone, the main thread's for an io thread that failed to start   *)
(* and the io thread's, with a new size, for a renderer that the closing   *)
(* surface has joined.                                                     *)
AgainstOrder(t) ==
  \/ pc[t] = "push" /\ t \in {"writer", "renderer"} /\ push[t].queue = "app"
  \/ pc[t] = "push" /\ t = "writer" /\ push[t].queue = "termio"
  \/ t = "writer" /\ pc[t] \in {"join", "abandon"}
  \/ t = "main" /\ "writer" \in Blockers(t) \cap Gone
  \/ t = "writer" /\ "renderer" \in Blockers(t) \cap Gone

(* Every circle of waits, and every wait for a thread that is gone, goes   *)
(* through one of those: the mutex is given up before every wait, and all  *)
(* other pushes, locks and joins keep to the order, through failed starts, *)
(* failing handlers and the close (Mailbox.send, surfaceMessageWriter,     *)
(* Surface.deinit).                                                        *)
WaitsOrdered ==
  \A S \in (SUBSET Threads) \ {{}} :
    \E t \in S : Free(t, S) \/ AgainstOrder(t)

(* Some thread has published a message for t and has yet to notify t.      *)
Notifying(t) ==
  CASE t = "writer" ->
         \/ pc["main"] = "notify writer"
         \/ pc["main"] = "relock" /\ push["main"].queue = "termio"
         \/ pc["reader"] = "relock" /\ push["reader"].queue = "termio"
         \/ /\ messaged
            /\ \/ pc["reader"] \in {"cursor", "parse"}
               \/ /\ pc["reader"] \in {"push", "relock"}
                  /\ push["reader"].queue = "app"
    [] t = "renderer" ->
         pc["main"] = "notify renderer" \/ pc["writer"] = "resized"

(* No lost wakeup between a full mailbox and a push that waits for room:   *)
(* its consumer is not asleep, or is about to be woken.  The push itself   *)
(* wakes nobody while it waits, except the io thread (Mailbox.send).       *)
NoStrandedSender ==
  \A q \in Queues :
    (Waiters(q) # {} /\ ~Room(q) /\ pc[Consumer[q]] = "loop")
      => \/ wake[Consumer[q]]
         \/ q = "termio" /\ Notifying("writer")
         \/ q = "rend" /\ Notifying("renderer")

(* "Mailbox producers should wake up our thread after publishing"          *)
(* (termio/Thread.zig:466-467).  No message for the io thread is left      *)
(* lying while it sleeps: its wakeup is set, or whoever published the      *)
(* message has yet to notify it.                                           *)
MailWillBeRead ==
  (pc["writer"] = "loop" /\ len["termio"] > 0)
    => wake["writer"] \/ Notifying("writer")

(* renderer/Thread.zig:499-500, "Mailbox producers should wake up our      *)
(* thread after publishing": the same for the renderer's mailbox.          *)
RendMailWillBeRead ==
  (pc["renderer"] = "loop" /\ len["rend"] > 0)
    => wake["renderer"] \/ Notifying("renderer")

(* Termio.zig:685, "Schedule a render. We can call this first because we   *)
(* have the lock": when the io threads are back in their loops, the        *)
(* renderer has looked at a changed terminal or is about to.               *)
ChangesWillBeShown ==
  (changed /\ pc["reader"] = "loop" /\ pc["writer"] = "loop")
    => \/ wake["renderer"] \/ stop["renderer"]
       \/ pc["renderer"] \in {"drain", "show", "show draw", "update"}
       \/ pc["renderer"] = "push" /\ push["renderer"].then = "drain"

(* Thread.zig:224-226: "If our loop is not stopped, then we need to keep   *)
(* running so that messages are drained and we can wait for the surface to *)
(* send a stop message."                                                   *)
StaysUntilStopped == pc["writer"] = "ended" => stop["writer"]

(* Every push that has to wait for room returns.                           *)
SendsReturn == \A t \in Threads : pc[t] = "push" ~> pc[t] # "push"

(* When input and output stop, all mail for the app and the io thread is   *)
(* read and nobody is left waiting.                                        *)
Settles ==
  <>[](len["app"] = 0 /\ len["termio"] = 0
         /\ \A t \in Threads : pc[t] \in {"loop", "ended"})

(* Surface.deinit gets through its joins.                                  *)
CloseCompletes == pc["main"] = "join renderer" ~> pc["main"] = "closed"

=============================================================================
