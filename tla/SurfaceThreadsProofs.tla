------------------------- MODULE SurfaceThreadsProofs -------------------------
(*****************************************************************************)
(* What holds of the four threads of a surface for mailboxes of any capacity *)
(* and any number of batches and messages: types, no sleeper with the mutex, *)
(* and every circle of waits, failed starts and the close included, goes     *)
(* through a wait that AgainstOrder names.  Without those, which also means  *)
(* without the close, there is no circle at all.                             *)
(*                                                                           *)
(* Inv says where each thread can be and what it can be pushing there, that  *)
(* the mutex is held only by a reader that parses and a main thread about to *)
(* notify the writer, and that only blocked pushes have been signalled.  The *)
(* proof that it is inductive goes by thread: what the steps of each leave   *)
(* alone (ReaderSteps ...), what they make of its own part (ReaderOwn ...),  *)
(* and the two steps that end a wait (Resumes, Relocks).                     *)
(*****************************************************************************)
EXTENDS SurfaceThreads, TLAPS

(* The functions have their domains.                                       *)
Shape ==
  /\ DOMAIN pc = Threads /\ DOMAIN push = Threads
  /\ DOMAIN wake = Threads /\ DOMAIN stop = Threads

(* What each thread can be doing, and the pushes it can be in.             *)
MainPlace ==
  /\ pc["main"] \in {"loop", "drain", "handle", "push", "relock",
                     "notify writer", "notify renderer", "join renderer",
                     "join writer", "closed"}
  /\ pc["main"] \in {"push", "relock"} =>
       \/ push["main"].queue = "termio" /\ push["main"].then = "notify writer"
       \/ /\ push["main"].queue = "rend" /\ ~push["main"].relock
          /\ push["main"].then = "notify renderer"
  /\ pc["main"] = "relock" => push["main"].relock
  /\ pc["main"] \notin {"push", "relock"} => push["main"].queue = "none"

ReaderPlace ==
  /\ pc["reader"] \in {"start", "loop", "lock", "cursor", "parse", "push",
                       "relock", "ended"}
  /\ pc["reader"] \in {"push", "relock"} =>
       /\ push["reader"].queue \in {"app", "termio"}
       /\ push["reader"].then = "parse" /\ push["reader"].relock
  /\ pc["reader"] \notin {"push", "relock"} => push["reader"].queue = "none"

WriterPlace ==
  /\ pc["writer"] \in {"start", "enter", "abandon", "stranded", "loop",
                       "drain", "redraw", "locked", "config", "push",
                       "resized", "join", "ended"}
  /\ pc["writer"] = "push" =>
       \/ /\ push["writer"].queue = "rend" /\ push["writer"].then = "resized"
          /\ ~push["writer"].relock
       \/ /\ push["writer"].queue = "app" /\ ~push["writer"].relock
          /\ \/ push["writer"].then = "loop"
             \/ push["writer"].then = "stranded" /\ pc["reader"] = "ended"
       \/ push["writer"].queue = "termio" /\ "writer" \notin signalled
  /\ pc["writer"] = "start" => pc["reader"] = "start"
  /\ pc["writer"] \in {"stranded", "ended"} => pc["reader"] = "ended"
  /\ pc["writer"] \notin {"push", "relock"} => push["writer"].queue = "none"

RendererPlace ==
  /\ pc["renderer"] \in {"loop", "drain", "show", "show draw", "update",
                         "draw", "push", "ended"}
  /\ pc["renderer"] = "push" =>
       /\ push["renderer"].queue = "app" /\ ~push["renderer"].relock
       /\ push["renderer"].then \in {"loop", "drain"}
  /\ pc["renderer"] \notin {"push", "relock"} =>
       push["renderer"].queue = "none"

(* Only the parser and a main thread that sends hold the mutex.            *)
Holders ==
  /\ mutex \in {"none", "reader", "main"}
  /\ mutex = "reader" <=> pc["reader"] \in {"cursor", "parse"}
  /\ mutex = "main" => pc["main"] = "notify writer"

(* The return place of the main thread and the bounds.                       *)
Scalars ==
  /\ back \in {"loop", "drain"}
  /\ batches \in 0 .. MaxBatches /\ emits \in 0 .. MaxEmits
  /\ sends \in 0 .. MaxSends

(* Flags.                                                                    *)
Booleans ==
  /\ wake \in [Threads -> BOOLEAN] /\ stop \in [Threads -> BOOLEAN]
  /\ messaged \in BOOLEAN /\ resize \in BOOLEAN /\ quit \in BOOLEAN
  /\ changed \in BOOLEAN

(* No mailbox holds more than fits.                                          *)
Bounded == DOMAIN len = Queues /\ \A q \in Queues : len[q] \in 0 .. Cap[q]

(* The inductive invariant.                                                  *)
Inv ==
  /\ Shape /\ Bounded /\ Booleans
  /\ MainPlace /\ ReaderPlace /\ WriterPlace /\ RendererPlace
  /\ Holders
  /\ signalled \subseteq {t \in Threads : pc[t] = "push"}
  /\ Scalars

(* The steps by the thread that takes them.                                  *)
ByReader == Reader \/ ReaderEnds \/ BatchArrives
ByWriter ==
  \/ Writer \/ WriterStartFails \/ WriterInputFails \/ WriterRunsDry
  \/ WriterTellsApp \/ WriterAborts \/ WriterResizeFails
ByRenderer == Renderer \/ RendererTellsApp \/ RendererAborts
ByMain == Main \/ UserInput \/ MainAborts

(* Where t is and what it pushes do not change.                              *)
Same(t) == pc'[t] = pc[t] /\ push'[t] = push[t]

(* t is not inside a push.                                                   *)
Awake(t) == pc[t] # "push"

(* What a step of the reader leaves alone: it is awake and started, and no   *)
(* other thread's place or push changes.                                     *)
LEMMA ReaderSteps ==
  ASSUME Shape, ByReader
  PROVE  /\ Shape' /\ Awake("reader") /\ pc["reader"] \notin {"start", "ended"}
         /\ Same("main") /\ Same("writer") /\ Same("renderer")
         /\ signalled' = signalled
<1>. USE DEF Notify, Goto, Block, Shape, Threads, Same, Take, Waiters, Awake
<1>1. CASE BeginParse
  BY <1>1 DEF BeginParse
<1>2. CASE ResetCursorBlink
  BY <1>2 DEF ResetCursorBlink
<1>3. CASE EmitApp
  BY <1>3 DEF EmitApp, Emit
<1>4. CASE EmitTermio
  BY <1>4 DEF EmitTermio, Emit
<1>5. CASE EndParse
  BY <1>5 DEF EndParse
<1>6. CASE ReaderEnds
  BY <1>6 DEF ReaderEnds
<1>7. CASE BatchArrives
  BY <1>7 DEF BatchArrives
<1>. QED
  BY <1>1, <1>2, <1>3, <1>4, <1>5, <1>6, <1>7 DEF ByReader, Reader

(* The writer moves itself, and the reader only by starting or by ending it; *)
(* only its drain signals blocked pushes.                                    *)
LEMMA WriterSteps ==
  ASSUME Shape, WriterPlace, ByWriter
  PROVE  /\ Shape' /\ Awake("writer")
         /\ Same("main") /\ Same("renderer")
         /\ \/ Same("reader")
            \/ /\ pc["reader"] = "start" /\ pc'["reader"] \in {"loop", "ended"}
               /\ push'["reader"] = push["reader"]
         /\ mutex' = mutex
         /\ \/ signalled' = signalled
            \/ /\ Draining
               /\ signalled' \subseteq signalled \cup Waiters("termio")
<1>. USE DEF Shape, Threads, Same, Awake
<1>1. CASE WriterEnters
  BY <1>1 DEF WriterEnters, WriterPlace
<1>2. CASE WriterStarts
  BY <1>2 DEF WriterStarts, Notify, Goto, Block, Take, Waiters
<1>3. CASE WriterWakes
  BY <1>3 DEF WriterWakes, Notify, Goto, Block, Take, Waiters
<1>4. CASE WriterPops
  BY <1>4 DEF WriterPops, Draining, Notify, Goto, Block, Take, Waiters
<1>5. CASE WriterDrained
  BY <1>5 DEF WriterDrained, Draining, Notify, Goto, Block, Take, Waiters
<1>6. CASE WriterLocked
  BY <1>6 DEF WriterLocked, Notify, Goto, Block, Take, Waiters
<1>7. CASE WriterConfig
  BY <1>7 DEF WriterConfig, Notify, Goto, Block, Take, Waiters
<1>8. CASE WriterResizes
  BY <1>8 DEF WriterResizes, Notify, Goto, Block, Take, Waiters
<1>9. CASE WriterResized
  BY <1>9 DEF WriterResized, Notify, Goto, Block, Take, Waiters
<1>10. CASE WriterStops
  BY <1>10 DEF WriterStops, Notify, Goto, Block, Take, Waiters
<1>11. CASE WriterJoins
  BY <1>11 DEF WriterJoins, Notify, Goto, Block, Take, Waiters
<1>12. CASE WriterStartFails
  BY <1>12 DEF WriterStartFails, WriterPlace
<1>13. CASE WriterTellsApp
  BY <1>13 DEF WriterTellsApp, TellApp, Notify, Goto, Block, Take, Waiters
<1>14. CASE WriterAborts
  BY <1>14 DEF WriterAborts, Draining, Notify, Goto, Block, Take, Waiters
<1>15. CASE WriterAbandons
  BY <1>15 DEF WriterAbandons, Notify, Goto, Block, Take, Waiters
<1>16. CASE WriterInputFails
  BY <1>16 DEF WriterInputFails, Notify, Goto, Block, Take, Waiters
<1>17. CASE WriterRunsDry
  BY <1>17 DEF WriterRunsDry, Notify, Goto, Block, Take, Waiters
<1>18. CASE WriterResizeFails
  BY <1>18 DEF WriterResizeFails, Notify, Goto, Block, Take, Waiters
<1>. QED
  BY <1>1, <1>2, <1>3, <1>4, <1>5, <1>6, <1>7, <1>8, <1>9, <1>10, <1>11, <1>12,
     <1>13, <1>14, <1>15, <1>16, <1>17, <1>18 DEF ByWriter, Writer

(* The renderer moves itself only; its drain signals pushes to its own       *)
(* mailbox.                                                                  *)
LEMMA RendererSteps ==
  ASSUME Shape, ByRenderer
  PROVE  /\ Shape' /\ Awake("renderer")
         /\ Same("main") /\ Same("reader") /\ Same("writer")
         /\ mutex' = mutex
         /\ signalled' \subseteq signalled \cup Waiters("rend")
<1>. USE DEF Notify, Goto, Block, Shape, Threads, Same, Take, Waiters, Awake
<1>1. CASE RendererWakes
  BY <1>1 DEF RendererWakes
<1>2. CASE RendererPops
  BY <1>2 DEF RendererPops
<1>3. CASE RendererDrained
  BY <1>3 DEF RendererDrained
<1>4. CASE RendererUpdates
  BY <1>4 DEF RendererUpdates
<1>5. CASE RendererDraws
  BY <1>5 DEF RendererDraws, AfterDraw
<1>6. CASE RendererStops
  BY <1>6 DEF RendererStops
<1>7. CASE RendererTellsApp
  BY <1>7 DEF RendererTellsApp, AfterDraw, TellApp
<1>8. CASE RendererAborts
  BY <1>8 DEF RendererAborts
<1>. QED
  BY <1>1, <1>2, <1>3, <1>4, <1>5, <1>6, <1>7, <1>8 DEF ByRenderer, Renderer

(* The main thread moves itself only; its drain signals pushes to the app    *)
(* mailbox.                                                                  *)
LEMMA MainSteps ==
  ASSUME Shape, ByMain
  PROVE  /\ Shape' /\ Awake("main")
         /\ Same("reader") /\ Same("writer") /\ Same("renderer")
         /\ signalled' \subseteq signalled \cup Waiters("app")
<1>. USE DEF Notify, Goto, Block, Shape, Threads, Same, Take, Waiters, Awake
<1>1. CASE MainTicks
  BY <1>1 DEF MainTicks
<1>2. CASE MainPops
  BY <1>2 DEF MainPops
<1>3. CASE MainHandled
  BY <1>3 DEF MainHandled
<1>4. CASE MainDrained
  BY <1>4 DEF MainDrained
<1>5. CASE MainNotifies
  BY <1>5 DEF MainNotifies
<1>6. CASE MainJoinsRenderer
  BY <1>6 DEF MainJoinsRenderer
<1>7. CASE MainJoinsWriter
  BY <1>7 DEF MainJoinsWriter
<1>8. CASE MainAborts
  BY <1>8 DEF MainAborts
<1>9. CASE MainSendsTermio
  BY <1>9 DEF MainSendsTermio, Sending
<1>10. CASE MainSendsLocked
  BY <1>10 DEF MainSendsLocked, Sending
<1>11. CASE MainSendsRend
  BY <1>11 DEF MainSendsRend, Sending
<1>12. CASE MainCloses
  BY <1>12 DEF MainCloses
<1>. QED
  BY <1>1, <1>2, <1>3, <1>4, <1>5, <1>6, <1>7, <1>8, <1>9, <1>10, <1>11, <1>12
     DEF ByMain, Main, UserInput

(* The reader stays at its places and holds the mutex at those where it      *)
(* parses.                                                                   *)
LEMMA ReaderOwn ==
  ASSUME Shape, ReaderPlace, Holders, ByReader
  PROVE  ReaderPlace' /\ Holders'
<1>. USE DEF BeginParse, Goto, Block, Shape, Threads, ReaderPlace, Holders,
    NoPush
<1>1. CASE BeginParse
  BY <1>1
<1>2. CASE ResetCursorBlink
  BY <1>2 DEF ResetCursorBlink
<1>3. CASE EmitApp
  <2>1. ReaderPlace'
    BY <1>3 DEF EmitApp, Emit
  <2>2. Holders'
    BY <1>3 DEF EmitApp, Emit
  <2>. QED
    BY <2>1, <2>2
<1>4. CASE EmitTermio
  <2>1. ReaderPlace'
    BY <1>4 DEF EmitTermio, Emit
  <2>2. Holders'
    BY <1>4 DEF EmitTermio, Emit
  <2>. QED
    BY <2>1, <2>2
<1>5. CASE EndParse
  BY <1>5 DEF EndParse
<1>6. CASE ReaderEnds
  BY <1>6 DEF ReaderEnds
<1>7. CASE BatchArrives
  BY <1>7 DEF BatchArrives
<1>. QED
  BY <1>1, <1>2, <1>3, <1>4, <1>5, <1>6, <1>7 DEF ByReader, Reader

(* The writer stays at its places; it never holds the mutex between steps.   *)
LEMMA WriterOwn ==
  ASSUME Inv, ByWriter
  PROVE  WriterPlace'
<1>. USE DEF Goto, Block, Shape, Threads, Inv, WriterPlace, NoPush
<1>1. CASE WriterEnters
  BY <1>1 DEF WriterEnters
<1>2. CASE WriterStarts
  BY <1>2 DEF WriterStarts
<1>3. CASE WriterWakes
  BY <1>3 DEF WriterWakes
<1>4. CASE WriterPops
  BY <1>4 DEF WriterPops, Draining
<1>5. CASE WriterDrained
  BY <1>5 DEF WriterDrained, Draining
<1>6. CASE WriterLocked
  BY <1>6 DEF WriterLocked
<1>7. CASE WriterConfig
  BY <1>7 DEF WriterConfig
<1>8. CASE WriterResizes
  BY <1>8 DEF WriterResizes
<1>9. CASE WriterResized
  BY <1>9 DEF WriterResized
<1>10. CASE WriterStops
  BY <1>10 DEF WriterStops
<1>11. CASE WriterJoins
  BY <1>11 DEF WriterJoins
<1>12. CASE WriterStartFails
  BY <1>12 DEF WriterStartFails
<1>13. CASE WriterTellsApp
  BY <1>13 DEF WriterTellsApp, TellApp
<1>14. CASE WriterAborts
  BY <1>14 DEF WriterAborts, Draining
<1>15. CASE WriterAbandons
  BY <1>15 DEF WriterAbandons
<1>16. CASE WriterInputFails
  BY <1>16 DEF WriterInputFails
<1>17. CASE WriterRunsDry
  BY <1>17 DEF WriterRunsDry
<1>18. CASE WriterResizeFails
  BY <1>18 DEF WriterResizeFails
<1>. QED
  BY <1>1, <1>2, <1>3, <1>4, <1>5, <1>6, <1>7, <1>8, <1>9, <1>10, <1>11, <1>12,
     <1>13, <1>14, <1>15, <1>16, <1>17, <1>18 DEF ByWriter, Writer

(* What Block leaves behind.                                                 *)
LEMMA Blocks ==
  ASSUME Shape, NEW t \in Threads, NEW q, NEW then, NEW relock,
         Block(t, q, then, relock)
  PROVE  /\ pc'[t] = "push" /\ push'[t].queue = q /\ push'[t].then = then
         /\ push'[t].relock = relock
BY DEF Shape, Block, Goto

(* The renderer stays at its places.                                         *)
LEMMA RendererOwn ==
  ASSUME Shape, RendererPlace, ByRenderer
  PROVE  RendererPlace'
<1>. USE DEF Goto, Block, Shape, Threads, RendererPlace, NoPush
<1>1. CASE RendererWakes
  BY <1>1 DEF RendererWakes
<1>2. CASE RendererPops
  BY <1>2 DEF RendererPops
<1>3. CASE RendererDrained
  BY <1>3 DEF RendererDrained
<1>4. CASE RendererUpdates
  BY <1>4 DEF RendererUpdates
<1>5. CASE RendererDraws
  BY <1>5 DEF RendererDraws, AfterDraw
<1>6. CASE RendererStops
  BY <1>6 DEF RendererStops
<1>7. CASE RendererTellsApp
  <2>1. AfterDraw \in {"loop", "drain"}
    BY DEF AfterDraw
  <2>2. CASE Goto("renderer", AfterDraw) /\ push' = push
    BY <1>7, <2>1, <2>2 DEF RendererTellsApp
  <2>3. CASE Block("renderer", "app", AfterDraw, FALSE)
    <3>1. /\ pc'["renderer"] = "push" /\ push'["renderer"].queue = "app"
          /\ push'["renderer"].then = AfterDraw
          /\ push'["renderer"].relock = FALSE
      BY <2>3, Blocks
    <3>. QED
      BY <2>1, <3>1
  <2>. QED
    BY <1>7, <2>2, <2>3 DEF RendererTellsApp, TellApp
<1>8. CASE RendererAborts
  BY <1>8 DEF RendererAborts
<1>. QED
  BY <1>1, <1>2, <1>3, <1>4, <1>5, <1>6, <1>7, <1>8 DEF ByRenderer, Renderer

(* The main thread stays at its places and holds the mutex at most until it  *)
(* has notified.                                                             *)
LEMMA MainOwn ==
  ASSUME Shape, MainPlace, Holders, Scalars, ByMain
  PROVE  MainPlace' /\ Holders'
<1>. USE DEF Goto, Block, Shape, Threads, MainPlace, Holders, Scalars, NoPush
<1>1. CASE MainTicks
  BY <1>1 DEF MainTicks
<1>2. CASE MainPops
  BY <1>2 DEF MainPops
<1>3. CASE MainHandled
  BY <1>3 DEF MainHandled
<1>4. CASE MainDrained
  BY <1>4 DEF MainDrained
<1>5. CASE MainNotifies
  BY <1>5 DEF MainNotifies
<1>6. CASE MainJoinsRenderer
  BY <1>6 DEF MainJoinsRenderer
<1>7. CASE MainJoinsWriter
  BY <1>7 DEF MainJoinsWriter
<1>8. CASE MainAborts
  BY <1>8 DEF MainAborts
<1>9. CASE MainSendsTermio
  <2>1. ASSUME Goto("main", "notify writer"), push' = push PROVE MainPlace'
    BY <1>9, <2>1 DEF MainSendsTermio, Sending
  <2>2. ASSUME Block("main", "termio", "notify writer", FALSE) PROVE MainPlace'
    <3>1. /\ pc'["main"] = "push" /\ push'["main"].queue = "termio"
          /\ push'["main"].then = "notify writer"
          /\ push'["main"].relock = FALSE
      BY <2>2, Blocks
    <3>. QED
      BY <3>1
  <2>3. Holders'
    BY <1>9 DEF MainSendsTermio, Sending
  <2>. QED
    BY <1>9, <2>1, <2>2, <2>3 DEF MainSendsTermio
<1>10. CASE MainSendsLocked
  <2>1. ASSUME Goto("main", "notify writer"), push' = push PROVE MainPlace'
    BY <1>10, <2>1 DEF MainSendsLocked, Sending
  <2>2. ASSUME Block("main", "termio", "notify writer", TRUE) PROVE MainPlace'
    <3>1. /\ pc'["main"] = "push" /\ push'["main"].queue = "termio"
          /\ push'["main"].then = "notify writer"
          /\ push'["main"].relock = TRUE
      BY <2>2, Blocks
    <3>. QED
      BY <3>1
  <2>3. Holders'
    BY <1>10 DEF MainSendsLocked, Sending
  <2>. QED
    BY <1>10, <2>1, <2>2, <2>3 DEF MainSendsLocked
<1>11. CASE MainSendsRend
  <2>1. ASSUME Goto("main", "notify renderer"), push' = push PROVE MainPlace'
    BY <1>11, <2>1 DEF MainSendsRend, Sending
  <2>2. ASSUME Block("main", "rend", "notify renderer", FALSE) PROVE MainPlace'
    <3>1. /\ pc'["main"] = "push" /\ push'["main"].queue = "rend"
          /\ push'["main"].then = "notify renderer"
          /\ push'["main"].relock = FALSE
      BY <2>2, Blocks
    <3>. QED
      BY <3>1
  <2>3. Holders'
    BY <1>11 DEF MainSendsRend, Sending
  <2>. QED
    BY <1>11, <2>1, <2>2, <2>3 DEF MainSendsRend
<1>12. CASE MainCloses
  BY <1>12 DEF MainCloses
<1>. QED
  BY <1>1, <1>2, <1>3, <1>4, <1>5, <1>6, <1>7, <1>8, <1>9, <1>10, <1>11, <1>12
     DEF ByMain, Main, UserInput

(* A message put where there is room fits.                                   *)
LEMMA PutBounded ==
  ASSUME Bounded, NEW q \in Queues, Room(q), Put(q) PROVE Bounded'
<1>1. \A r \in Queues : Cap[r] \in Nat
  BY ConstantsAssumption
<1>2. /\ DOMAIN len' = Queues
      /\ \A r \in Queues : len'[r] = IF r = q THEN len[r] + 1 ELSE len[r]
  BY DEF Put, Bounded
<1>. QED
  BY <1>1, <1>2 DEF Bounded, Room

(* A message taken leaves a length that is no less than zero.                *)
LEMMA TakeBounded ==
  ASSUME Bounded, NEW q \in Queues, Take(q) PROVE Bounded'
<1>1. \A r \in Queues : Cap[r] \in Nat
  BY ConstantsAssumption
<1>2. /\ DOMAIN len' = Queues /\ len[q] > 0
      /\ \A r \in Queues : len'[r] = IF r = q THEN len[r] - 1 ELSE len[r]
  BY DEF Take, Bounded
<1>. QED
  BY <1>1, <1>2 DEF Bounded

(* Mailboxes nobody touches stay within bounds.                              *)
LEMMA StillBounded == ASSUME Bounded, len' = len PROVE Bounded'
BY DEF Bounded

(* The steps of the reader keep the mailboxes within their capacities.       *)
LEMMA LensReader ==
  ASSUME Bounded, ByReader
  PROVE  Bounded'
<1>. USE PutBounded, TakeBounded, StillBounded DEF Queues
<1>1. CASE BeginParse
  BY <1>1 DEF BeginParse
<1>2. CASE ResetCursorBlink
  BY <1>2 DEF ResetCursorBlink
<1>3. CASE EmitApp
  BY <1>3 DEF EmitApp, Emit
<1>4. CASE EmitTermio
  BY <1>4 DEF EmitTermio, Emit
<1>5. CASE EndParse
  BY <1>5 DEF EndParse
<1>6. CASE ReaderEnds
  BY <1>6 DEF ReaderEnds
<1>7. CASE BatchArrives
  BY <1>7 DEF BatchArrives
<1>. QED
  BY <1>1, <1>2, <1>3, <1>4, <1>5, <1>6, <1>7 DEF ByReader, Reader

(* The steps of the writer keep the mailboxes within their capacities.       *)
LEMMA LensWriter ==
  ASSUME Bounded, ByWriter
  PROVE  Bounded'
<1>. USE PutBounded, TakeBounded, StillBounded DEF Queues
<1>1. CASE WriterEnters
  BY <1>1 DEF WriterEnters
<1>2. CASE WriterStarts
  BY <1>2 DEF WriterStarts
<1>3. CASE WriterWakes
  BY <1>3 DEF WriterWakes
<1>4. CASE WriterPops
  BY <1>4 DEF WriterPops, Draining
<1>5. CASE WriterDrained
  BY <1>5 DEF WriterDrained, Draining
<1>6. CASE WriterLocked
  BY <1>6 DEF WriterLocked
<1>7. CASE WriterConfig
  BY <1>7 DEF WriterConfig
<1>8. CASE WriterResizes
  BY <1>8 DEF WriterResizes
<1>9. CASE WriterResized
  BY <1>9 DEF WriterResized
<1>10. CASE WriterStops
  BY <1>10 DEF WriterStops
<1>11. CASE WriterJoins
  BY <1>11 DEF WriterJoins
<1>12. CASE WriterStartFails
  BY <1>12 DEF WriterStartFails
<1>13. CASE WriterTellsApp
  BY <1>13 DEF WriterTellsApp, TellApp
<1>14. CASE WriterAborts
  BY <1>14 DEF WriterAborts, Draining
<1>15. CASE WriterAbandons
  BY <1>15 DEF WriterAbandons
<1>16. CASE WriterInputFails
  BY <1>16 DEF WriterInputFails
<1>17. CASE WriterRunsDry
  BY <1>17 DEF WriterRunsDry
<1>18. CASE WriterResizeFails
  BY <1>18 DEF WriterResizeFails
<1>. QED
  BY <1>1, <1>2, <1>3, <1>4, <1>5, <1>6, <1>7, <1>8, <1>9, <1>10, <1>11, <1>12,
     <1>13, <1>14, <1>15, <1>16, <1>17, <1>18 DEF ByWriter, Writer

(* The steps of the renderer keep the mailboxes within their capacities.     *)
LEMMA LensRenderer ==
  ASSUME Bounded, ByRenderer
  PROVE  Bounded'
<1>. USE PutBounded, TakeBounded, StillBounded DEF Queues
<1>1. CASE RendererWakes
  BY <1>1 DEF RendererWakes
<1>2. CASE RendererPops
  BY <1>2 DEF RendererPops
<1>3. CASE RendererDrained
  BY <1>3 DEF RendererDrained
<1>4. CASE RendererUpdates
  BY <1>4 DEF RendererUpdates
<1>5. CASE RendererDraws
  BY <1>5 DEF RendererDraws
<1>6. CASE RendererStops
  BY <1>6 DEF RendererStops
<1>7. CASE RendererTellsApp
  BY <1>7 DEF RendererTellsApp, TellApp
<1>8. CASE RendererAborts
  BY <1>8 DEF RendererAborts
<1>. QED
  BY <1>1, <1>2, <1>3, <1>4, <1>5, <1>6, <1>7, <1>8 DEF ByRenderer, Renderer

(* The steps of the main thread keep the mailboxes within their capacities.  *)
LEMMA LensMain ==
  ASSUME Bounded, ByMain
  PROVE  Bounded'
<1>. USE PutBounded, TakeBounded, StillBounded DEF Queues
<1>1. CASE MainTicks
  BY <1>1 DEF MainTicks
<1>2. CASE MainPops
  BY <1>2 DEF MainPops
<1>3. CASE MainHandled
  BY <1>3 DEF MainHandled
<1>4. CASE MainDrained
  BY <1>4 DEF MainDrained
<1>5. CASE MainNotifies
  BY <1>5 DEF MainNotifies
<1>6. CASE MainJoinsRenderer
  BY <1>6 DEF MainJoinsRenderer
<1>7. CASE MainJoinsWriter
  BY <1>7 DEF MainJoinsWriter
<1>8. CASE MainAborts
  BY <1>8 DEF MainAborts
<1>9. CASE MainSendsTermio
  BY <1>9 DEF MainSendsTermio, Sending
<1>10. CASE MainSendsLocked
  BY <1>10 DEF MainSendsLocked, Sending
<1>11. CASE MainSendsRend
  BY <1>11 DEF MainSendsRend, Sending
<1>12. CASE MainCloses
  BY <1>12 DEF MainCloses
<1>. QED
  BY <1>1, <1>2, <1>3, <1>4, <1>5, <1>6, <1>7, <1>8, <1>9, <1>10, <1>11, <1>12
     DEF ByMain, Main, UserInput

(* A send by the main thread takes one from the bound and notes where to     *)
(* return to.                                                                *)
LEMMA SendingScalars == ASSUME Scalars, Sending PROVE Scalars'
<1>1. back' \in {"loop", "drain"}
  BY DEF Sending
<1>. QED
  BY <1>1, ConstantsAssumption DEF Scalars, Sending

(* The steps of the reader keep the bounds and the main thread's return      *)
(* place within their sets.                                                  *)
LEMMA ScalarsReader ==
  ASSUME Scalars, ByReader
  PROVE  Scalars'
<1>. USE ConstantsAssumption DEF Scalars, bounds
<1>1. CASE BeginParse
  BY <1>1 DEF BeginParse
<1>2. CASE ResetCursorBlink
  BY <1>2 DEF ResetCursorBlink
<1>3. CASE EmitApp
  BY <1>3 DEF EmitApp, Emit
<1>4. CASE EmitTermio
  BY <1>4 DEF EmitTermio, Emit
<1>5. CASE EndParse
  BY <1>5 DEF EndParse
<1>6. CASE ReaderEnds
  BY <1>6 DEF ReaderEnds
<1>7. CASE BatchArrives
  BY <1>7 DEF BatchArrives
<1>. QED
  BY <1>1, <1>2, <1>3, <1>4, <1>5, <1>6, <1>7 DEF ByReader, Reader

(* The steps of the writer keep the bounds and the main thread's return      *)
(* place within their sets.                                                  *)
LEMMA ScalarsWriter ==
  ASSUME Scalars, ByWriter
  PROVE  Scalars'
<1>. USE ConstantsAssumption DEF Scalars, bounds
<1>1. CASE WriterEnters
  BY <1>1 DEF WriterEnters
<1>2. CASE WriterStarts
  BY <1>2 DEF WriterStarts
<1>3. CASE WriterWakes
  BY <1>3 DEF WriterWakes
<1>4. CASE WriterPops
  BY <1>4 DEF WriterPops, Draining
<1>5. CASE WriterDrained
  BY <1>5 DEF WriterDrained, Draining
<1>6. CASE WriterLocked
  BY <1>6 DEF WriterLocked
<1>7. CASE WriterConfig
  BY <1>7 DEF WriterConfig
<1>8. CASE WriterResizes
  BY <1>8 DEF WriterResizes
<1>9. CASE WriterResized
  BY <1>9 DEF WriterResized
<1>10. CASE WriterStops
  BY <1>10 DEF WriterStops
<1>11. CASE WriterJoins
  BY <1>11 DEF WriterJoins
<1>12. CASE WriterStartFails
  BY <1>12 DEF WriterStartFails
<1>13. CASE WriterTellsApp
  BY <1>13 DEF WriterTellsApp, TellApp
<1>14. CASE WriterAborts
  BY <1>14 DEF WriterAborts, Draining
<1>15. CASE WriterAbandons
  BY <1>15 DEF WriterAbandons
<1>16. CASE WriterInputFails
  BY <1>16 DEF WriterInputFails
<1>17. CASE WriterRunsDry
  BY <1>17 DEF WriterRunsDry
<1>18. CASE WriterResizeFails
  BY <1>18 DEF WriterResizeFails
<1>. QED
  BY <1>1, <1>2, <1>3, <1>4, <1>5, <1>6, <1>7, <1>8, <1>9, <1>10, <1>11, <1>12,
     <1>13, <1>14, <1>15, <1>16, <1>17, <1>18 DEF ByWriter, Writer

(* The steps of the renderer keep the bounds and the main thread's return    *)
(* place within their sets.                                                  *)
LEMMA ScalarsRenderer ==
  ASSUME Scalars, ByRenderer
  PROVE  Scalars'
<1>. USE ConstantsAssumption DEF Scalars, bounds
<1>1. CASE RendererWakes
  BY <1>1 DEF RendererWakes
<1>2. CASE RendererPops
  BY <1>2 DEF RendererPops
<1>3. CASE RendererDrained
  BY <1>3 DEF RendererDrained
<1>4. CASE RendererUpdates
  BY <1>4 DEF RendererUpdates
<1>5. CASE RendererDraws
  <2>1. /\ sends' = sends \/ (sends > 0 /\ sends' = sends - 1)
        /\ back' = back /\ batches' = batches /\ emits' = emits
    BY <1>5, Zenon DEF RendererDraws
  <2>. QED
    BY <2>1
<1>6. CASE RendererStops
  BY <1>6 DEF RendererStops
<1>7. CASE RendererTellsApp
  <2>1. /\ sends > 0 /\ sends' = sends - 1
        /\ back' = back /\ batches' = batches /\ emits' = emits
    BY <1>7, Zenon DEF RendererTellsApp, TellApp
  <2>. QED
    BY <2>1
<1>8. CASE RendererAborts
  BY <1>8 DEF RendererAborts
<1>. QED
  BY <1>1, <1>2, <1>3, <1>4, <1>5, <1>6, <1>7, <1>8 DEF ByRenderer, Renderer

(* The steps of the main thread keep the bounds and the main thread's return *)
(* place within their sets.                                                  *)
LEMMA ScalarsMain ==
  ASSUME Scalars, ByMain
  PROVE  Scalars'
<1>. USE ConstantsAssumption DEF Scalars, bounds
<1>1. CASE MainTicks
  BY <1>1 DEF MainTicks
<1>2. CASE MainPops
  BY <1>2 DEF MainPops
<1>3. CASE MainHandled
  BY <1>3 DEF MainHandled
<1>4. CASE MainDrained
  BY <1>4 DEF MainDrained
<1>5. CASE MainNotifies
  BY <1>5 DEF MainNotifies
<1>6. CASE MainJoinsRenderer
  BY <1>6 DEF MainJoinsRenderer
<1>7. CASE MainJoinsWriter
  BY <1>7 DEF MainJoinsWriter
<1>8. CASE MainAborts
  BY <1>8 DEF MainAborts
<1>9. CASE MainSendsTermio
  BY <1>9, SendingScalars DEF MainSendsTermio
<1>10. CASE MainSendsLocked
  BY <1>10, SendingScalars DEF MainSendsLocked
<1>11. CASE MainSendsRend
  BY <1>11, SendingScalars DEF MainSendsRend
<1>12. CASE MainCloses
  BY <1>12 DEF MainCloses
<1>. QED
  BY <1>1, <1>2, <1>3, <1>4, <1>5, <1>6, <1>7, <1>8, <1>9, <1>10, <1>11, <1>12
     DEF ByMain, Main, UserInput

(* The steps of the reader keep the flags boolean.                           *)
LEMMA BooleansReader ==
  ASSUME Booleans, ByReader
  PROVE  Booleans'
<1>. USE DEF Booleans, Threads, Notify, bounds
<1>1. CASE BeginParse
  BY <1>1 DEF BeginParse
<1>2. CASE ResetCursorBlink
  BY <1>2 DEF ResetCursorBlink
<1>3. CASE EmitApp
  BY <1>3 DEF EmitApp, Emit
<1>4. CASE EmitTermio
  BY <1>4 DEF EmitTermio, Emit
<1>5. CASE EndParse
  BY <1>5 DEF EndParse
<1>6. CASE ReaderEnds
  BY <1>6 DEF ReaderEnds
<1>7. CASE BatchArrives
  BY <1>7 DEF BatchArrives
<1>. QED
  BY <1>1, <1>2, <1>3, <1>4, <1>5, <1>6, <1>7 DEF ByReader, Reader

(* The steps of the writer keep the flags boolean.                           *)
LEMMA BooleansWriter ==
  ASSUME Booleans, ByWriter
  PROVE  Booleans'
<1>. USE DEF Booleans, Threads, Notify, bounds
<1>1. CASE WriterEnters
  BY <1>1 DEF WriterEnters
<1>2. CASE WriterStarts
  BY <1>2 DEF WriterStarts
<1>3. CASE WriterWakes
  BY <1>3 DEF WriterWakes
<1>4. CASE WriterPops
  BY <1>4 DEF WriterPops, Draining
<1>5. CASE WriterDrained
  BY <1>5 DEF WriterDrained, Draining
<1>6. CASE WriterLocked
  BY <1>6 DEF WriterLocked
<1>7. CASE WriterConfig
  BY <1>7 DEF WriterConfig
<1>8. CASE WriterResizes
  BY <1>8 DEF WriterResizes
<1>9. CASE WriterResized
  BY <1>9 DEF WriterResized
<1>10. CASE WriterStops
  BY <1>10 DEF WriterStops
<1>11. CASE WriterJoins
  BY <1>11 DEF WriterJoins
<1>12. CASE WriterStartFails
  BY <1>12 DEF WriterStartFails
<1>13. CASE WriterTellsApp
  BY <1>13 DEF WriterTellsApp, TellApp
<1>14. CASE WriterAborts
  BY <1>14 DEF WriterAborts, Draining
<1>15. CASE WriterAbandons
  BY <1>15 DEF WriterAbandons
<1>16. CASE WriterInputFails
  BY <1>16 DEF WriterInputFails
<1>17. CASE WriterRunsDry
  BY <1>17 DEF WriterRunsDry
<1>18. CASE WriterResizeFails
  BY <1>18 DEF WriterResizeFails
<1>. QED
  BY <1>1, <1>2, <1>3, <1>4, <1>5, <1>6, <1>7, <1>8, <1>9, <1>10, <1>11, <1>12,
     <1>13, <1>14, <1>15, <1>16, <1>17, <1>18 DEF ByWriter, Writer

(* The steps of the renderer keep the flags boolean.                         *)
LEMMA BooleansRenderer ==
  ASSUME Booleans, ByRenderer
  PROVE  Booleans'
<1>. USE DEF Booleans, Threads, Notify, bounds
<1>1. CASE RendererWakes
  BY <1>1 DEF RendererWakes
<1>2. CASE RendererPops
  BY <1>2 DEF RendererPops
<1>3. CASE RendererDrained
  BY <1>3 DEF RendererDrained
<1>4. CASE RendererUpdates
  BY <1>4 DEF RendererUpdates
<1>5. CASE RendererDraws
  BY <1>5 DEF RendererDraws
<1>6. CASE RendererStops
  BY <1>6 DEF RendererStops
<1>7. CASE RendererTellsApp
  BY <1>7 DEF RendererTellsApp, TellApp
<1>8. CASE RendererAborts
  BY <1>8 DEF RendererAborts
<1>. QED
  BY <1>1, <1>2, <1>3, <1>4, <1>5, <1>6, <1>7, <1>8 DEF ByRenderer, Renderer

(* The steps of the main thread keep the flags boolean.                      *)
LEMMA BooleansMain ==
  ASSUME Booleans, ByMain
  PROVE  Booleans'
<1>. USE DEF Booleans, Threads, Notify, bounds
<1>1. CASE MainTicks
  BY <1>1 DEF MainTicks
<1>2. CASE MainPops
  BY <1>2 DEF MainPops
<1>3. CASE MainHandled
  BY <1>3 DEF MainHandled
<1>4. CASE MainDrained
  BY <1>4 DEF MainDrained
<1>5. CASE MainNotifies
  BY <1>5 DEF MainNotifies
<1>6. CASE MainJoinsRenderer
  BY <1>6 DEF MainJoinsRenderer
<1>7. CASE MainJoinsWriter
  BY <1>7 DEF MainJoinsWriter
<1>8. CASE MainAborts
  BY <1>8 DEF MainAborts
<1>9. CASE MainSendsTermio
  BY <1>9 DEF MainSendsTermio, Sending
<1>10. CASE MainSendsLocked
  BY <1>10 DEF MainSendsLocked, Sending
<1>11. CASE MainSendsRend
  BY <1>11 DEF MainSendsRend, Sending
<1>12. CASE MainCloses
  BY <1>12 DEF MainCloses
<1>. QED
  BY <1>1, <1>2, <1>3, <1>4, <1>5, <1>6, <1>7, <1>8, <1>9, <1>10, <1>11, <1>12
     DEF ByMain, Main, UserInput

(* The program starts within the invariant.                                  *)
LEMMA InvInit == Init => Inv
<1>. SUFFICES ASSUME Init PROVE Inv
  OBVIOUS
<1>1. Shape /\ Booleans
  BY DEF Init, Shape, Booleans
<1>2. Bounded
  BY ConstantsAssumption DEF Init, Bounded
<1>3. MainPlace /\ ReaderPlace /\ WriterPlace /\ RendererPlace /\ Holders
  BY DEF Init, MainPlace, ReaderPlace, WriterPlace, RendererPlace, Holders,
     Threads, NoPush
<1>4. Scalars
  BY ConstantsAssumption DEF Init, Scalars
<1>. QED
  BY <1>1, <1>2, <1>3, <1>4 DEF Init, Inv

(* A push that returns keeps the invariant: its message goes in only where   *)
(* there is room, and a push that gave the mutex up goes on to take it back. *)
LEMMA Resumes ==
  ASSUME Inv, NEW t \in Threads, ResumePush(t)
  PROVE  Inv'
<1>1. Shape'
  BY DEF Inv, Shape, ResumePush, Goto, Notify
<1>2. Bounded'
  <2>1. push[t].queue \in Queues
    BY DEF Inv, MainPlace, ReaderPlace, WriterPlace, RendererPlace, ResumePush,
       Threads, Queues
  <2>. QED
    BY <2>1, PutBounded, StillBounded, Zenon DEF Inv, ResumePush
<1>3. Booleans'
  BY DEF Inv, Booleans, ResumePush, Notify, bounds
<1>4. Scalars'
  BY DEF Inv, Scalars, ResumePush, bounds
<1>5. \A u \in Threads \ {t} : Same(u)
  BY DEF Inv, Shape, ResumePush, Goto, Same
<1>6. /\ pc[t] = "push"
      /\ pc'[t] = IF push[t].relock THEN "relock" ELSE push[t].then
  BY DEF Inv, Shape, ResumePush, Goto, Notify
<1>7. /\ t \in signalled /\ signalled' = signalled \ {t}
      /\ push[t].relock => push' = push
      /\ mutex' = mutex
  BY DEF ResumePush
<1>14. ~push[t].relock => push'[t].queue = "none"
  BY DEF Inv, Shape, ResumePush, NoPush
<1>8. MainPlace'
  BY <1>5, <1>6, <1>7, <1>14 DEF Inv, MainPlace, Same, Threads
<1>9. ReaderPlace'
  BY <1>5, <1>6, <1>7, <1>14 DEF Inv, ReaderPlace, Same, Threads
<1>10. WriterPlace'
  BY <1>5, <1>6, <1>7, <1>14 DEF Inv, WriterPlace, Same, Threads
<1>11. RendererPlace'
  BY <1>5, <1>6, <1>7, <1>14 DEF Inv, RendererPlace, Same, Threads
<1>12. Holders'
  BY <1>5, <1>6, <1>7 DEF Inv, Holders, ReaderPlace, MainPlace, Same, Threads
<1>13. (signalled \subseteq {u \in Threads : pc[u] = "push"})'
  BY <1>5, <1>7 DEF Inv, Same
<1>. QED
  BY <1>1, <1>2, <1>3, <1>4, <1>8, <1>9, <1>10, <1>11, <1>12, <1>13 DEF Inv

(* Taking the mutex back keeps the invariant: only the reader and a main     *)
(* thread in queueIo do it, at a place where they hold it.                   *)
LEMMA Relocks ==
  ASSUME Inv, NEW t \in Threads, Relock(t)
  PROVE  Inv'
<1>1. Shape' /\ Bounded'
  BY StillBounded DEF Inv, Shape, Relock, Goto
<1>3. Booleans'
  BY DEF Inv, Booleans, Relock, bounds
<1>4. Scalars'
  BY DEF Inv, Scalars, Relock, bounds
<1>5. \A u \in Threads \ {t} : Same(u)
  BY DEF Inv, Shape, Relock, Goto, Same
<1>6. pc[t] = "relock" /\ pc'[t] = push[t].then /\ push'[t].queue = "none"
  BY DEF Inv, Shape, Relock, Goto, NoPush
<1>7. mutex = "none" /\ mutex' = t /\ signalled' = signalled
  BY DEF Relock
<1>8. MainPlace'
  BY <1>5, <1>6 DEF Inv, MainPlace, Same, Threads
<1>9. ReaderPlace'
  BY <1>5, <1>6 DEF Inv, ReaderPlace, Same, Threads
<1>10. WriterPlace'
  BY <1>5, <1>6, <1>7 DEF Inv, WriterPlace, Same, Threads
<1>11. RendererPlace'
  BY <1>5, <1>6 DEF Inv, RendererPlace, Same, Threads
<1>12. t \in {"main", "reader"}
  BY <1>6 DEF Inv, WriterPlace, RendererPlace, Threads
<1>13. Holders'
  BY <1>5, <1>6, <1>7, <1>12 DEF Inv, Holders, ReaderPlace, MainPlace, Same,
     Threads
<1>14. (signalled \subseteq {u \in Threads : pc[u] = "push"})'
  BY <1>5, <1>6, <1>7 DEF Inv, Same
<1>. QED
  BY <1>1, <1>3, <1>4, <1>8, <1>9, <1>10, <1>11, <1>13, <1>14 DEF Inv

(* The reader's steps keep the invariant.                                    *)
LEMMA InvReader == ASSUME Inv, ByReader PROVE Inv'
<1>1. Shape' /\ Bounded' /\ Booleans' /\ Scalars'
  BY ReaderSteps, LensReader, BooleansReader, ScalarsReader DEF Inv
<1>2. /\ Same("main") /\ Same("writer") /\ Same("renderer")
      /\ signalled' = signalled
      /\ pc["reader"] \notin {"push", "start", "ended"}
  BY ReaderSteps DEF Inv, Awake
<1>3. ReaderPlace' /\ Holders'
  BY ReaderOwn DEF Inv
<1>4. MainPlace' /\ RendererPlace'
  BY <1>2 DEF Inv, MainPlace, RendererPlace, Same
<1>6. WriterPlace'
  BY <1>2 DEF Inv, WriterPlace, Same
<1>5. (signalled \subseteq {u \in Threads : pc[u] = "push"})'
  BY <1>2 DEF Inv, Same, Threads
<1>. QED
  BY <1>1, <1>3, <1>4, <1>5, <1>6 DEF Inv

(* The writer's steps keep the invariant.                                    *)
LEMMA InvWriter == ASSUME Inv, ByWriter PROVE Inv'
<1>1. Shape' /\ Bounded' /\ Booleans' /\ Scalars'
  BY WriterSteps, LensWriter, BooleansWriter, ScalarsWriter DEF Inv
<1>2. /\ Same("main") /\ Same("renderer") /\ mutex' = mutex
      /\ pc["writer"] # "push"
      /\ \/ signalled' = signalled
         \/ signalled' \subseteq signalled \cup Waiters("termio")
  BY WriterSteps DEF Inv, Awake
<1>3. \/ Same("reader")
      \/ /\ pc["reader"] = "start" /\ pc'["reader"] \in {"loop", "ended"}
         /\ push'["reader"] = push["reader"]
  BY WriterSteps DEF Inv
<1>4. MainPlace' /\ RendererPlace'
  BY <1>2 DEF Inv, MainPlace, RendererPlace, Same
<1>7. ReaderPlace'
  BY <1>3 DEF Inv, ReaderPlace, Same
<1>8. Holders'
  BY <1>2, <1>3 DEF Inv, Holders, Same
<1>5. WriterPlace'
  BY WriterOwn
<1>6. (signalled \subseteq {u \in Threads : pc[u] = "push"})'
  BY <1>2, <1>3 DEF Inv, Same, Threads, Waiters
<1>. QED
  BY <1>1, <1>4, <1>5, <1>6, <1>7, <1>8 DEF Inv

(* The renderer's steps keep the invariant.                                  *)
LEMMA InvRenderer == ASSUME Inv, ByRenderer PROVE Inv'
<1>1. Shape' /\ Bounded' /\ Booleans' /\ Scalars'
  BY RendererSteps, LensRenderer, BooleansRenderer, ScalarsRenderer DEF Inv
<1>2. /\ Same("main") /\ Same("writer") /\ Same("reader") /\ mutex' = mutex
      /\ pc["renderer"] # "push"
      /\ signalled' \subseteq signalled \cup Waiters("rend")
  BY RendererSteps DEF Inv, Awake
<1>3. RendererPlace'
  BY RendererOwn DEF Inv
<1>4. MainPlace' /\ ReaderPlace' /\ Holders'
  BY <1>2 DEF Inv, MainPlace, ReaderPlace, Holders, Same
<1>6. WriterPlace'
  BY <1>2 DEF Inv, WriterPlace, Same, Waiters
<1>5. (signalled \subseteq {u \in Threads : pc[u] = "push"})'
  BY <1>2 DEF Inv, Same, Threads, Waiters
<1>. QED
  BY <1>1, <1>3, <1>4, <1>5, <1>6 DEF Inv

(* The main thread's steps keep the invariant.                               *)
LEMMA InvMain == ASSUME Inv, ByMain PROVE Inv'
<1>1. Shape' /\ Bounded' /\ Booleans' /\ Scalars'
  BY MainSteps, LensMain, BooleansMain, ScalarsMain DEF Inv
<1>2. /\ Same("renderer") /\ Same("writer") /\ Same("reader")
      /\ pc["main"] # "push"
      /\ signalled' \subseteq signalled \cup Waiters("app")
  BY MainSteps DEF Inv, Awake
<1>3. MainPlace' /\ Holders'
  BY MainOwn DEF Inv
<1>4. RendererPlace' /\ ReaderPlace' /\ WriterPlace'
  BY <1>2 DEF Inv, RendererPlace, ReaderPlace, WriterPlace, Same, Waiters
<1>5. (signalled \subseteq {u \in Threads : pc[u] = "push"})'
  BY <1>2 DEF Inv, Same, Threads, Waiters
<1>. QED
  BY <1>1, <1>3, <1>4, <1>5 DEF Inv

(* Every step is one of a thread's own, a wait that ends or a stutter.     *)
LEMMA StepCases ==
  ASSUME [Next]_vars
  PROVE  \/ ByReader \/ ByWriter \/ ByRenderer \/ ByMain
         \/ \E t \in Threads : ResumePush(t) \/ Relock(t)
         \/ UNCHANGED vars
BY DEF Next, ByReader, ByWriter, ByRenderer, ByMain, Mailing

(* A stutter keeps the invariant.                                            *)
LEMMA InvStutter == ASSUME Inv, UNCHANGED vars PROVE Inv'
<1>. USE DEF vars
<1>1. Shape' /\ Bounded' /\ Booleans' /\ Scalars'
  BY DEF Inv, Shape, Bounded, Booleans, Scalars
<1>2. MainPlace' /\ ReaderPlace'
  BY DEF Inv, MainPlace, ReaderPlace
<1>3. WriterPlace' /\ RendererPlace' /\ Holders'
  BY DEF Inv, WriterPlace, RendererPlace, Holders
<1>. QED
  BY <1>1, <1>2, <1>3 DEF Inv

(* The inductive invariant holds in every reachable state.                   *)
THEOREM InvHolds == Spec => []Inv
<1>1. Inv /\ [Next]_vars => Inv'
  BY StepCases, InvReader, InvWriter, InvRenderer, InvMain, Resumes, Relocks,
     InvStutter
<1>. QED
  BY <1>1, InvInit, PTL DEF Spec

(* Every variable keeps its type, for mailboxes of any capacity, whatever    *)
(* fails and whenever the surface closes: no mailbox holds more than fits,   *)
(* only blocked pushes are signalled.                                        *)
THEOREM Types == Spec => []TypeOK
<1>1. Inv => TypeOK
  <2>. SUFFICES ASSUME Inv PROVE TypeOK
    OBVIOUS
  <2>1. DOMAIN len = Queues /\ \A q \in Queues : len[q] \in 0 .. Cap[q]
    BY DEF Inv, Bounded
  <2>2. /\ wake \in [Threads -> BOOLEAN] /\ stop \in [Threads -> BOOLEAN]
        /\ messaged \in BOOLEAN /\ resize \in BOOLEAN
        /\ quit \in BOOLEAN /\ changed \in BOOLEAN
    BY Zenon DEF Inv, Booleans
  <2>3. \A t \in Threads : push[t].queue \in Queues \cup {"none"}
    BY DEF Inv, MainPlace, ReaderPlace, WriterPlace, RendererPlace, Threads,
       Queues
  <2>4. mutex \in Threads \cup {"none"}
    BY DEF Inv, Holders, Threads
  <2>. QED
    BY <2>1, <2>2, <2>3, <2>4
       DEF Inv, Shape, MainPlace, ReaderPlace, WriterPlace, RendererPlace,
           Scalars, TypeOK
<1>. QED
  BY <1>1, InvHolds, PTL

(* Mailbox.send and surfaceMessageWriter give the renderer state mutex up    *)
(* before they wait: no thread ever sleeps in a push with the mutex in hand. *)
THEOREM HoldersAwake == Spec => []NoBlockedHolder
<1>1. Inv => NoBlockedHolder
  BY DEF Inv, Holders, NoBlockedHolder, Threads
<1>. QED
  BY <1>1, InvHolds, PTL

-------------------------------------------------------------------------------
(* The surface is not closed, threadEnter succeeds, only the reader pushes   *)
(* to the app with forever and the io thread not to itself.                  *)
Steady ==
  AppForever = {} /\ ~Closes /\ ~StartFails /\ "config" \notin WriterWork

(* Nobody is told to stop; nobody but the reader ends.                       *)
SteadyInv ==
  /\ stop = [t \in Threads |-> FALSE]
  /\ Ended \subseteq {"reader"}
  /\ pc["main"] \notin {"join renderer", "join writer", "closed"}
  /\ pc["writer"] \notin {"join", "config", "abandon", "stranded"}
  /\ pc["writer"] = "push" => push["writer"].queue = "rend"
  /\ pc["renderer"] # "push"

(* The steps of the reader keep a surface that is not closed running.        *)
LEMMA SteadyReader ==
  ASSUME Steady, Shape, Scalars, SteadyInv, ByReader
  PROVE  SteadyInv'
<1>. USE DEF Goto, Block, Shape, Threads, Ended, Steady, SteadyInv
<1>1. CASE BeginParse
  BY <1>1 DEF BeginParse
<1>2. CASE ResetCursorBlink
  BY <1>2 DEF ResetCursorBlink
<1>3. CASE EmitApp
  BY <1>3 DEF EmitApp, Emit
<1>4. CASE EmitTermio
  BY <1>4 DEF EmitTermio, Emit
<1>5. CASE EndParse
  BY <1>5 DEF EndParse
<1>6. CASE ReaderEnds
  BY <1>6 DEF ReaderEnds
<1>7. CASE BatchArrives
  BY <1>7 DEF BatchArrives
<1>. QED
  BY <1>1, <1>2, <1>3, <1>4, <1>5, <1>6, <1>7 DEF ByReader, Reader

(* The steps of the writer keep a surface that is not closed running.        *)
LEMMA SteadyWriter ==
  ASSUME Steady, Shape, Scalars, SteadyInv, ByWriter
  PROVE  SteadyInv'
<1>. USE DEF Goto, Block, Shape, Threads, Ended, Steady, SteadyInv
<1>1. CASE WriterEnters
  BY <1>1 DEF WriterEnters
<1>2. CASE WriterStarts
  BY <1>2 DEF WriterStarts
<1>3. CASE WriterWakes
  BY <1>3 DEF WriterWakes
<1>4. CASE WriterPops
  BY <1>4 DEF WriterPops, Draining
<1>5. CASE WriterDrained
  BY <1>5 DEF WriterDrained, Draining
<1>6. CASE WriterLocked
  BY <1>6 DEF WriterLocked
<1>7. CASE WriterConfig
  BY <1>7 DEF WriterConfig
<1>8. CASE WriterResizes
  <2>1. /\ pc["writer"] = "loop" /\ \A u \in Threads \ {"writer"} : Same(u)
        /\ pc'["writer"] \in {"resized", "push"} /\ stop' = stop
        /\ \/ Goto("writer", "resized")
           \/ Block("writer", "rend", "resized", FALSE)
    BY <1>8 DEF WriterResizes, Same
  <2>2. pc'["writer"] = "push" => push'["writer"].queue = "rend"
    <3>1. CASE Goto("writer", "resized")
      BY <3>1
    <3>2. CASE Block("writer", "rend", "resized", FALSE)
      BY <3>2, Blocks
    <3>. QED
      BY <2>1, <3>1, <3>2
  <2>. QED
    BY <2>1, <2>2 DEF Same
<1>9. CASE WriterResized
  BY <1>9 DEF WriterResized
<1>10. CASE WriterStops
  BY <1>10 DEF WriterStops
<1>11. CASE WriterJoins
  BY <1>11 DEF WriterJoins
<1>12. CASE WriterStartFails
  BY <1>12 DEF WriterStartFails
<1>13. CASE WriterTellsApp
  BY <1>13 DEF WriterTellsApp, TellApp
<1>14. CASE WriterAborts
  BY <1>14 DEF WriterAborts, Draining
<1>15. CASE WriterAbandons
  BY <1>15 DEF WriterAbandons
<1>16. CASE WriterInputFails
  BY <1>16 DEF WriterInputFails
<1>17. CASE WriterRunsDry
  BY <1>17 DEF WriterRunsDry
<1>18. CASE WriterResizeFails
  BY <1>18 DEF WriterResizeFails
<1>. QED
  BY <1>1, <1>2, <1>3, <1>4, <1>5, <1>6, <1>7, <1>8, <1>9, <1>10, <1>11, <1>12,
     <1>13, <1>14, <1>15, <1>16, <1>17, <1>18 DEF ByWriter, Writer

(* The steps of the renderer keep a surface that is not closed running.      *)
LEMMA SteadyRenderer ==
  ASSUME Steady, Shape, Scalars, SteadyInv, ByRenderer
  PROVE  SteadyInv'
<1>. USE DEF Goto, Block, Shape, Threads, Ended, Steady, SteadyInv
<1>1. CASE RendererWakes
  BY <1>1 DEF RendererWakes
<1>2. CASE RendererPops
  BY <1>2 DEF RendererPops
<1>3. CASE RendererDrained
  BY <1>3 DEF RendererDrained
<1>4. CASE RendererUpdates
  BY <1>4 DEF RendererUpdates
<1>5. CASE RendererDraws
  BY <1>5 DEF RendererDraws, AfterDraw
<1>6. CASE RendererStops
  BY <1>6 DEF RendererStops
<1>7. CASE RendererTellsApp
  BY <1>7 DEF RendererTellsApp, AfterDraw, TellApp
<1>8. CASE RendererAborts
  BY <1>8 DEF RendererAborts
<1>. QED
  BY <1>1, <1>2, <1>3, <1>4, <1>5, <1>6, <1>7, <1>8 DEF ByRenderer, Renderer

(* The steps of the main thread keep a surface that is not closed running.   *)
LEMMA SteadyMain ==
  ASSUME Steady, Shape, Scalars, SteadyInv, ByMain
  PROVE  SteadyInv'
<1>. USE DEF Goto, Block, Shape, Threads, Ended, Steady, SteadyInv
<1>1. CASE MainTicks
  BY <1>1 DEF MainTicks
<1>2. CASE MainPops
  BY <1>2 DEF MainPops
<1>3. CASE MainHandled
  BY <1>3 DEF MainHandled
<1>4. CASE MainDrained
  BY <1>4 DEF MainDrained
<1>5. CASE MainNotifies
  BY <1>5 DEF MainNotifies, Scalars
<1>6. CASE MainJoinsRenderer
  BY <1>6 DEF MainJoinsRenderer
<1>7. CASE MainJoinsWriter
  BY <1>7 DEF MainJoinsWriter
<1>8. CASE MainAborts
  BY <1>8 DEF MainAborts
<1>9. CASE MainSendsTermio
  BY <1>9 DEF MainSendsTermio, Sending
<1>10. CASE MainSendsLocked
  BY <1>10 DEF MainSendsLocked, Sending
<1>11. CASE MainSendsRend
  BY <1>11 DEF MainSendsRend, Sending
<1>12. CASE MainCloses
  BY <1>12 DEF MainCloses
<1>. QED
  BY <1>1, <1>2, <1>3, <1>4, <1>5, <1>6, <1>7, <1>8, <1>9, <1>10, <1>11, <1>12
     DEF ByMain, Main, UserInput

(* A push that returns or takes the mutex back keeps a surface that is not   *)
(* closed running.                                                           *)
LEMMA SteadyResumes ==
  ASSUME Inv, SteadyInv, NEW t \in Threads, ResumePush(t) \/ Relock(t)
  PROVE  SteadyInv'
<1>1. /\ pc[t] \in {"push", "relock"} /\ \A u \in Threads \ {t} : Same(u)
      /\ stop' = stop
      /\ pc'[t] \in {"relock", push[t].then}
  BY DEF Inv, Shape, ResumePush, Relock, Goto, Same
<1>2. t \in {"main", "reader"} \/ (t = "writer" /\ pc'[t] = "resized")
  BY <1>1 DEF Inv, Shape, WriterPlace, RendererPlace, SteadyInv, ResumePush,
     Relock, Goto, Threads
<1>3. /\ t = "main" =>
           pc'[t] \in {"relock", "notify writer", "notify renderer"}
      /\ t = "reader" => pc'[t] \in {"relock", "parse"}
  BY <1>1 DEF Inv, MainPlace, ReaderPlace
<1>4. stop' = stop /\ \A u \in Threads : pc'[u] = "ended" => pc[u] = "ended"
  <2>1. pc'[t] # "ended"
    BY <1>1, <1>2, <1>3
  <2>. QED
    BY <1>1, <2>1 DEF Same
<1>5. /\ pc'["main"] \notin {"join renderer", "join writer", "closed"}
      /\ pc'["writer"] \notin {"join", "config", "abandon", "stranded"}
      /\ pc'["renderer"] # "push"
      /\ pc'["writer"] = "push" => push'["writer"].queue = "rend"
  BY <1>1, <1>2, <1>3 DEF SteadyInv, Same, Threads
<1>. QED
  BY <1>4, <1>5 DEF SteadyInv, Ended

(* On a surface that is not closed no thread but the reader ends, and the    *)
(* renderer and the io thread never wait for the app.                        *)
LEMMA SteadyHolds == ASSUME Steady PROVE Spec => []SteadyInv
<1>1. Init => SteadyInv
  BY DEF Init, SteadyInv, Ended, Threads
<1>2. ASSUME Inv, SteadyInv, [Next]_vars PROVE SteadyInv'
  <2>1. CASE ByReader \/ ByWriter \/ ByRenderer \/ ByMain
    BY <1>2, <2>1, SteadyReader, SteadyWriter, SteadyRenderer, SteadyMain DEF
       Inv
  <2>2. CASE \E t \in Threads : ResumePush(t) \/ Relock(t)
    BY <1>2, <2>2, SteadyResumes
  <2>3. CASE UNCHANGED vars
    BY <1>2, <2>3 DEF vars, SteadyInv, Ended
  <2>. QED
    BY <1>2, <2>1, <2>2, <2>3, StepCases
<1>. QED
  BY <1>1, <1>2, InvHolds, PTL DEF Spec

(* Who can wait for whom, on a surface that is not closed: the renderer for  *)
(* the mutex only, the writer for the renderer too, the main thread for      *)
(* both, the reader for the writer and the main thread; who has the mutex    *)
(* waits for nobody.                                                         *)
LEMMA LockOrder ==
  ASSUME Inv, SteadyInv
  PROVE  /\ Gone = Ended
         /\ Blockers("renderer") \subseteq {mutex} \ {"none"}
         /\ Blockers("writer") \subseteq {"renderer", mutex} \ {"none"}
         /\ Blockers("main") \subseteq {"writer", "renderer", mutex} \ {"none"}
         /\ Blockers("reader") \subseteq {"main", "writer", mutex} \ {"none"}
         /\ mutex # "none" =>
              mutex \in Threads \ Ended /\ Blockers(mutex) = {}
<1>1. /\ Consumer["app"] = "main" /\ Consumer["termio"] = "writer"
      /\ Consumer["rend"] = "renderer"
  BY DEF Consumer, Queues
<1>7. Gone = Ended
  BY DEF Inv, MainPlace, ReaderPlace, RendererPlace, SteadyInv, Gone, Threads
<1>2. Blockers("renderer") \subseteq {mutex} \ {"none"}
  BY DEF Inv, RendererPlace, SteadyInv, Blockers
<1>3. Blockers("writer") \subseteq {"renderer", mutex} \ {"none"}
  BY <1>1 DEF Inv, WriterPlace, SteadyInv, Blockers
<1>4. Blockers("main") \subseteq {"writer", "renderer", mutex} \ {"none"}
  BY <1>1 DEF Inv, MainPlace, SteadyInv, Blockers
<1>5. Blockers("reader") \subseteq {"main", "writer", mutex} \ {"none"}
  BY <1>1 DEF Inv, ReaderPlace, Blockers
<1>6. mutex # "none" => mutex \in Threads \ Ended /\ Blockers(mutex) = {}
  BY DEF Inv, Holders, Blockers, Ended, Threads
<1>. QED
  BY <1>2, <1>3, <1>4, <1>5, <1>6, <1>7

(* No threads wait for each other in a circle, or for one that has ended,    *)
(* through full mailboxes and the mutex. The hypothesis excludes the circles *)
(* the code has: joins while the surface closes, forever pushes to the app   *)
(* by the threads it joins, a failed start and the io thread's push to its   *)
(* own mailbox.                                                              *)
THEOREM NoCycle == ASSUME Steady PROVE Spec => []NoWaitCycle
<1>1. Inv /\ SteadyInv => NoWaitCycle
  <2>. SUFFICES ASSUME Inv, SteadyInv, NEW S \in (SUBSET Threads) \ {{}}
                PROVE  \E t \in S : Blockers(t) \cap (S \cup Ended) = {}
    BY LockOrder DEF NoWaitCycle, Free
  <2>1. /\ Ended \subseteq {"reader"}
        /\ S \subseteq {"main", "writer", "reader", "renderer"}
    BY DEF SteadyInv, Threads
  <2>2. CASE mutex \in S
    BY <2>1, <2>2, LockOrder DEF Threads
  <2>3. CASE mutex \notin S
    <3>. {mutex} \ {"none"} \subseteq Threads \ (S \cup Ended)
      BY <2>3, LockOrder DEF Threads
    <3>1. CASE "renderer" \in S
      BY <3>1, LockOrder
    <3>2. CASE "renderer" \notin S /\ "writer" \in S
      BY <2>1, <3>2, LockOrder
    <3>3. CASE S \cap {"renderer", "writer"} = {} /\ "main" \in S
      BY <2>1, <3>3, LockOrder
    <3>4. CASE S \cap {"renderer", "writer", "main"} = {} /\ "reader" \in S
      BY <2>1, <3>4, LockOrder
    <3>5. PICK t : t \in S
      OBVIOUS
    <3>. QED
      BY <2>1, <3>1, <3>2, <3>3, <3>4, <3>5
  <2>. QED
    BY <2>2, <2>3
<1>. QED
  BY <1>1, InvHolds, SteadyHolds, PTL

-------------------------------------------------------------------------------
(* The renderer ends only for the main thread that closes the surface, and   *)
(* that one does nothing else from there on.                                 *)
Closing ==
  /\ pc["renderer"] = "ended" => stop["renderer"]
  /\ stop["renderer"] =>
       pc["main"] \in {"join renderer", "join writer", "closed"}

(* The close goes one way, whoever moves.                                    *)
LEMMA ClosingStep == ASSUME Inv, Closing, [Next]_vars PROVE Closing'
<1>1. CASE ByReader
  <2>1. stop' = stop
    BY <1>1 DEF ByReader, Reader, BeginParse, ResetCursorBlink, EmitApp,
       EmitTermio, Emit, EndParse, ReaderEnds, BatchArrives
  <2>. QED
    BY <1>1, <2>1, ReaderSteps DEF Inv, Same, Closing
<1>2. CASE ByWriter
  <2>1. stop' = stop
    BY <1>2 DEF ByWriter, Writer, WriterEnters, WriterStarts, WriterAbandons,
       WriterWakes, WriterPops, WriterDrained, WriterLocked, WriterConfig,
       WriterResizes, WriterResized, WriterStops, WriterJoins,
       WriterStartFails, WriterInputFails, WriterRunsDry, WriterTellsApp,
       TellApp, WriterAborts, WriterResizeFails
  <2>. QED
    BY <1>2, <2>1, WriterSteps DEF Inv, Same, Closing
<1>3. CASE ByRenderer
  <2>. USE <1>3, RendererSteps DEF Inv, Shape, Same, Closing, Threads
  <2>1. CASE RendererStops
    BY <2>1 DEF RendererStops, Goto
  <2>2. CASE ~RendererStops
    <3>1. stop' = stop
      BY <2>2 DEF ByRenderer, Renderer, RendererWakes, RendererPops,
         RendererDrained, RendererUpdates, RendererDraws, RendererTellsApp,
         TellApp, RendererAborts
    <3>2. pc'["renderer"] # "ended"
      <4>1. CASE RendererWakes \/ RendererPops \/ RendererDrained
                 \/ RendererUpdates \/ RendererAborts
        BY <4>1 DEF RendererWakes, RendererPops, RendererDrained,
           RendererUpdates, RendererAborts, Goto
      <4>2. CASE RendererDraws
        BY <4>2 DEF RendererDraws, AfterDraw, Goto
      <4>3. CASE RendererTellsApp
        BY <4>3 DEF RendererTellsApp, TellApp, AfterDraw, Block, Goto
      <4>. QED
        BY <2>2, <4>1, <4>2, <4>3 DEF ByRenderer, Renderer
    <3>. QED
      BY <3>1, <3>2
  <2>. QED
    BY <2>1, <2>2
<1>4. CASE ByMain
  <2>1. pc'["renderer"] = pc["renderer"]
    BY <1>4, MainSteps DEF Inv, Same
  <2>2. CASE MainCloses
    BY <2>1, <2>2 DEF MainCloses, Goto, Closing, Inv, Shape, Threads
  <2>3. CASE MainJoinsRenderer \/ MainJoinsWriter
    BY <2>1, <2>3 DEF MainJoinsRenderer, MainJoinsWriter, Goto, Closing, Inv,
       Shape, Threads
  <2>4. CASE /\ stop' = stop
             /\ pc["main"] \notin {"join renderer", "join writer", "closed"}
    BY <2>1, <2>4 DEF Closing
  <2>. QED
    BY <1>4, <2>2, <2>3, <2>4
       DEF ByMain, Main, UserInput, MainTicks, MainPops, MainHandled,
           MainDrained, MainNotifies, MainAborts, MainSendsTermio,
           MainSendsLocked, MainSendsRend, Sending
<1>5. CASE \E t \in Threads : ResumePush(t) \/ Relock(t)
  <2>. PICK t \in Threads : ResumePush(t) \/ Relock(t)
    BY <1>5
  <2>1. /\ pc[t] \in {"push", "relock"} /\ \A u \in Threads \ {t} : Same(u)
        /\ stop' = stop
        /\ pc'[t] \in {"relock", push[t].then}
    BY DEF Inv, Shape, ResumePush, Relock, Goto, Same
  <2>2. t = "renderer" => pc'[t] # "ended"
    BY <2>1 DEF Inv, RendererPlace
  <2>. QED
    BY <2>1, <2>2 DEF Closing, Same, Threads
<1>6. CASE UNCHANGED vars
  BY <1>6 DEF vars, Closing
<1>. QED
  BY <1>1, <1>2, <1>3, <1>4, <1>5, <1>6, StepCases

(* Who can wait for whom, in every state: the renderer for the app in a push *)
(* and for the mutex; the writer for the renderer and the mutex, or against  *)
(* the order; the main thread for writer, renderer and mutex; the reader for *)
(* writer, main thread and mutex.  Of the threads that are gone only the     *)
(* writer is waited for by the main thread, and only the renderer by the     *)
(* writer.                                                                   *)
LEMMA WaitOrder ==
  ASSUME Inv, Closing
  PROVE  /\ \/ AgainstOrder("renderer")
            \/ Blockers("renderer") \subseteq {mutex} \ {"none"}
         /\ \/ AgainstOrder("writer")
            \/ Blockers("writer") \subseteq {"renderer", mutex} \ {"none"}
         /\ Blockers("main") \subseteq {"writer", "renderer", mutex} \ {"none"}
         /\ "renderer" \in Blockers("main") => "renderer" \notin Gone
         /\ Blockers("reader") \subseteq {"main", "writer", mutex} \ {"none"}
         /\ "writer" \in Gone => Blockers("reader") = {}
         /\ Gone \subseteq {"writer", "reader", "renderer"}
         /\ mutex # "none" =>
              mutex \in Threads \ Gone /\ Blockers(mutex) = {}
<1>1. /\ Consumer["app"] = "main" /\ Consumer["termio"] = "writer"
      /\ Consumer["rend"] = "renderer"
  BY DEF Consumer, Queues
<1>2. \/ AgainstOrder("renderer")
      \/ Blockers("renderer") \subseteq {mutex} \ {"none"}
  BY DEF Inv, RendererPlace, Blockers, AgainstOrder
<1>3. \/ AgainstOrder("writer")
      \/ Blockers("writer") \subseteq {"renderer", mutex} \ {"none"}
  BY <1>1 DEF Inv, WriterPlace, Blockers, AgainstOrder
<1>4. Blockers("main") \subseteq {"writer", "renderer", mutex} \ {"none"}
  BY <1>1 DEF Inv, MainPlace, Blockers
<1>5. "renderer" \in Blockers("main") => "renderer" \notin Gone
  BY <1>1 DEF Inv, MainPlace, RendererPlace, Holders, Closing, Blockers, Gone, Ended
<1>6. Blockers("reader") \subseteq {"main", "writer", mutex} \ {"none"}
  BY <1>1 DEF Inv, ReaderPlace, Blockers
<1>7. "writer" \in Gone => Blockers("reader") = {}
  BY DEF Inv, WriterPlace, Blockers, Gone, Ended
<1>8. Gone \subseteq {"writer", "reader", "renderer"}
  BY DEF Inv, MainPlace, Gone, Ended, Threads
<1>9. mutex # "none" => mutex \in Threads \ Gone /\ Blockers(mutex) = {}
  BY DEF Inv, Holders, Blockers, Gone, Ended, Threads
<1>. QED
  BY <1>2, <1>3, <1>4, <1>5, <1>6, <1>7, <1>8, <1>9

(* In every state of every behaviour - failed starts, failing handlers,      *)
(* forever pushes from every thread, the close - a circle of waits, or a     *)
(* wait for a thread that is gone, goes through one of the waits AgainstOrder *)
(* names.                                                                    *)
THEOREM Ordered == Spec => []WaitsOrdered
<1>1. Inv /\ Closing => WaitsOrdered
  <2>. SUFFICES ASSUME Inv, Closing, NEW S \in (SUBSET Threads) \ {{}}
                PROVE  \E t \in S : Free(t, S) \/ AgainstOrder(t)
    BY DEF WaitsOrdered
  <2>1. S \subseteq {"main", "writer", "reader", "renderer"}
    BY DEF Threads
  <2>2. CASE mutex \in S
    BY <2>1, <2>2, WaitOrder DEF Threads, Free
  <2>3. CASE mutex \notin S
    <3>. {mutex} \ {"none"} \subseteq Threads \ (S \cup Gone)
      BY <2>3, WaitOrder DEF Threads
    <3>1. CASE "renderer" \in S
      BY <3>1, WaitOrder DEF Free
    <3>2. CASE "renderer" \notin S /\ "writer" \in S
      <4>1. CASE "renderer" \in Blockers("writer") \cap Gone
        BY <3>2, <4>1 DEF AgainstOrder
      <4>2. CASE "renderer" \notin Blockers("writer") \cap Gone
        BY <3>2, <4>2, WaitOrder DEF Free
      <4>. QED
        BY <4>1, <4>2
    <3>3. CASE S \cap {"renderer", "writer"} = {} /\ "main" \in S
      <4>1. CASE "writer" \in Blockers("main") \cap Gone
        BY <3>3, <4>1 DEF AgainstOrder
      <4>2. CASE "writer" \notin Blockers("main") \cap Gone
        BY <3>3, <4>2, WaitOrder DEF Free
      <4>. QED
        BY <4>1, <4>2
    <3>4. CASE S \cap {"renderer", "writer", "main"} = {} /\ "reader" \in S
      BY <3>4, WaitOrder DEF Free
    <3>5. PICK t : t \in S
      OBVIOUS
    <3>. QED
      BY <2>1, <3>1, <3>2, <3>3, <3>4, <3>5
  <2>. QED
    BY <2>2, <2>3
<1>2. Init => Closing
  BY DEF Init, Closing, Threads
<1>3. Inv /\ Closing /\ [Next]_vars => Closing'
  BY ClosingStep
<1>. QED
  BY <1>1, <1>2, <1>3, InvHolds, PTL DEF Spec

===============================================================================
