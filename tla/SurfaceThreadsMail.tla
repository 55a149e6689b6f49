-------------------------- MODULE SurfaceThreadsMail ---------------------------
(*****************************************************************************)
(* What holds of the notifications of the four threads, on top of the        *)
(* invariant of SurfaceThreadsProofs: mail is not left lying, senders are    *)
(* not stranded, changes are shown.  Where the code breaks one of these, the *)
(* hypothesis of the theorem names what breaks it.                           *)
(*****************************************************************************)
EXTENDS SurfaceThreadsProofs

(* MailWillBeRead at every place of the writer, drains included.             *)
TermioMail ==
  len["termio"] > 0 =>
    \/ wake["writer"] \/ Notifying("writer")
    \/ pc["writer"] \in {"drain", "redraw", "locked", "config"}

(* Mail for the app: the app loop is awake, will be woken, returns to its    *)
(* drain when it has sent, or is closing the surface.                        *)
AppMail ==
  len["app"] > 0 =>
    \/ wake["main"]
    \/ pc["main"] \in {"drain", "handle", "join renderer", "join writer",
                       "closed"}
    \/ pc["main"] # "loop" /\ back = "drain"

(* The renderer is in its drain, or goes back to it after a render.          *)
Drains ==
  \/ pc["renderer"] \in {"drain", "show", "show draw"}
  \/ pc["renderer"] = "push" /\ push["renderer"].then = "drain"

(* Mail for the renderer: at most one message is not announced, the reset of *)
(* the cursor blink of a batch that has begun.                               *)
RendMail ==
  \/ wake["renderer"] \/ Notifying("renderer") \/ Drains
  \/ len["rend"] = 0
  \/ len["rend"] = 1 /\ pc["reader"] # "cursor"

(* The end of a render: the renderer goes back to where it was called from,  *)
(* or waits for room for what it tells the app and goes back then.           *)
Shown ==
  /\ Same("main") /\ Same("reader") /\ Same("writer")
  /\ len'["termio"] = len["termio"] /\ len'["rend"] = len["rend"]
  /\ len' = len \/ wake'["main"]
  /\ \A t \in Threads : wake[t] => wake'[t]
  /\ stop' = stop /\ messaged' = messaged /\ back' = back
  /\ changed' = changed
  /\ pc["renderer"] \in {"draw", "show draw"}
  /\ Drains => Drains'

(* Both steps that end a render are such steps.                              *)
LEMMA RendererShown ==
  ASSUME Inv, RendererDraws \/ RendererTellsApp
  PROVE  Shown
<1>1. Same("main") /\ Same("reader") /\ Same("writer")
  BY RendererSteps, Zenon DEF Inv, ByRenderer, Renderer
<1>2. /\ len' = len \/ (Put("app") /\ Notify("main"))
      /\ wake' = wake \/ Notify("main")
      /\ pc["renderer"] \in {"draw", "show draw"}
  BY Zenon DEF RendererDraws, RendererTellsApp, TellApp
<1>3. /\ stop' = stop /\ messaged' = messaged /\ back' = back
      /\ changed' = changed
  BY Zenon DEF RendererDraws, RendererTellsApp, TellApp
<1>4. /\ len'["termio"] = len["termio"] /\ len'["rend"] = len["rend"]
      /\ len' = len \/ wake'["main"]
      /\ \A t \in Threads : wake[t] => wake'[t]
  <2>1. Shape /\ Bounded
    BY Zenon DEF Inv
  <2>. QED
    BY <1>2, <2>1 DEF Put, Notify, Shape, Bounded, Threads, Queues
<1>5. ASSUME Drains PROVE Drains'
  <2>1. pc["renderer"] = "show draw"
    BY <1>2, <1>5 DEF Drains
  <2>2. AfterDraw = "drain"
    BY <2>1 DEF AfterDraw
  <2>3. \/ Goto("renderer", AfterDraw)
        \/ Block("renderer", "app", AfterDraw, FALSE)
    BY Zenon DEF RendererDraws, RendererTellsApp, TellApp
  <2>4. Goto("renderer", "drain") \/ Block("renderer", "app", "drain", FALSE)
    BY <2>2, <2>3, Zenon
  <2>5. Shape
    BY Zenon DEF Inv
  <2>6. \/ pc'["renderer"] = "drain"
        \/ pc'["renderer"] = "push" /\ push'["renderer"].then = "drain"
    BY <2>4, <2>5, Blocks DEF Goto, Shape, Threads
  <2>. QED
    BY <2>6 DEF Drains
<1>. QED
  BY <1>1, <1>2, <1>3, <1>4, <1>5, Zenon DEF Shown

(* The steps of the reader keep mail for the io thread accounted for.        *)
LEMMA TermioMailReader ==
  ASSUME "writer" \notin Aborts, Inv, TermioMail, ByReader
  PROVE  TermioMail'
<1>. USE DEF Inv, Goto, Notify, Put, Take, Shape, Bounded, Threads, Queues,
    bounds
<1>1. CASE BeginParse
  BY <1>1 DEF BeginParse, Block, Notifying, TermioMail, WriterPlace
<1>2. CASE ResetCursorBlink
  BY <1>2 DEF ResetCursorBlink, Block, Notifying, TermioMail, WriterPlace
<1>3. CASE EmitApp
  <2>1. /\ pc["reader"] = "parse" /\ len'["termio"] = len["termio"]
        /\ messaged' = messaged /\ wake'["writer"] = wake["writer"]
    BY <1>3 DEF EmitApp, Emit
  <2>2. /\ pc'["main"] = pc["main"] /\ push'["main"] = push["main"]
        /\ pc'["writer"] = pc["writer"]
        /\ \/ pc'["reader"] = "parse"
           \/ pc'["reader"] = "push" /\ push'["reader"].queue = "app"
    BY <1>3 DEF EmitApp, Emit, Block
  <2>. QED
    BY <2>1, <2>2 DEF TermioMail, Notifying
<1>4. CASE EmitTermio
  BY <1>4 DEF EmitTermio, Emit, Block, Notifying, TermioMail, WriterPlace
<1>5. CASE EndParse
  BY <1>5 DEF EndParse, Block, Notifying, TermioMail, WriterPlace
<1>6. CASE ReaderEnds
  BY <1>6 DEF ReaderEnds, Block, Notifying, TermioMail, WriterPlace
<1>7. CASE BatchArrives
  BY <1>7 DEF BatchArrives, Block, Notifying, TermioMail, WriterPlace
<1>. QED
  BY <1>1, <1>2, <1>3, <1>4, <1>5, <1>6, <1>7 DEF ByReader, Reader

(* The steps of the writer keep mail for the io thread accounted for.        *)
LEMMA TermioMailWriter ==
  ASSUME "writer" \notin Aborts, Inv, TermioMail, ByWriter
  PROVE  TermioMail'
<1>. USE DEF Inv, Goto, Notify, Put, Take, Shape, Bounded, Threads, Queues,
    bounds
<1>1. CASE WriterEnters
  BY <1>1 DEF WriterEnters, Block, Notifying, TermioMail, WriterPlace
<1>2. CASE WriterStarts
  BY <1>2 DEF WriterStarts, Block, Notifying, TermioMail, WriterPlace
<1>3. CASE WriterWakes
  BY <1>3 DEF WriterWakes, Block, Notifying, TermioMail, WriterPlace
<1>4. CASE WriterPops
  BY <1>4 DEF WriterPops, Draining, Block, Notifying, TermioMail, WriterPlace
<1>5. CASE WriterDrained
  BY <1>5 DEF WriterDrained, TermioMail
<1>6. CASE WriterLocked
  BY <1>6 DEF WriterLocked, Block, Notifying, TermioMail, WriterPlace
<1>7. CASE WriterConfig
  BY <1>7 DEF WriterConfig, Block, Notifying, TermioMail, WriterPlace
<1>8. CASE WriterResizes
  BY <1>8 DEF WriterResizes, Block, Notifying, TermioMail, WriterPlace
<1>9. CASE WriterResized
  BY <1>9 DEF WriterResized, Block, Notifying, TermioMail, WriterPlace
<1>10. CASE WriterStops
  BY <1>10 DEF WriterStops, Block, Notifying, TermioMail, WriterPlace
<1>11. CASE WriterJoins
  BY <1>11 DEF WriterJoins, Block, Notifying, TermioMail, WriterPlace
<1>12. CASE WriterStartFails
  BY <1>12 DEF WriterStartFails, Block, Notifying, TermioMail, WriterPlace
<1>13. CASE WriterTellsApp
  BY <1>13 DEF WriterTellsApp, TellApp, Block, Notifying, TermioMail,
     WriterPlace
<1>14. CASE WriterAborts
  BY <1>14 DEF WriterAborts, Draining, Block, Notifying, TermioMail,
     WriterPlace
<1>15. CASE WriterAbandons
  BY <1>15 DEF WriterAbandons, Block, Notifying, TermioMail,
     WriterPlace
<1>16. CASE WriterInputFails
  BY <1>16 DEF WriterInputFails, Block, Notifying, TermioMail,
     WriterPlace
<1>17. CASE WriterRunsDry
  BY <1>17 DEF WriterRunsDry, Block, Notifying, TermioMail,
     WriterPlace
<1>18. CASE WriterResizeFails
  BY <1>18 DEF WriterResizeFails, Block, Notifying, TermioMail,
     WriterPlace
<1>. QED
  BY <1>1, <1>2, <1>3, <1>4, <1>5, <1>6, <1>7, <1>8, <1>9, <1>10, <1>11, <1>12,
     <1>13, <1>14, <1>15, <1>16, <1>17, <1>18 DEF ByWriter, Writer

(* The steps of the renderer keep mail for the io thread accounted for.      *)
LEMMA TermioMailRenderer ==
  ASSUME "writer" \notin Aborts, Inv, TermioMail, ByRenderer
  PROVE  TermioMail'
<1>. USE DEF Inv, Goto, Notify, Put, Take, Shape, Bounded, Threads, Queues,
    bounds
<1>1. CASE RendererWakes
  BY <1>1 DEF RendererWakes, Block, Notifying, TermioMail, WriterPlace
<1>2. CASE RendererPops
  BY <1>2 DEF RendererPops, Block, Notifying, TermioMail, WriterPlace
<1>3. CASE RendererDrained
  BY <1>3 DEF RendererDrained, Block, Notifying, TermioMail, WriterPlace
<1>4. CASE RendererUpdates
  BY <1>4 DEF RendererUpdates, Block, Notifying, TermioMail, WriterPlace
<1>5. CASE RendererDraws \/ RendererTellsApp
  <2>1. Shown
    BY <1>5, RendererShown, Zenon
  <2>. QED
    BY <2>1 DEF Shown, TermioMail, Notifying, Same
<1>6. CASE RendererStops
  BY <1>6 DEF RendererStops, Block, Notifying, TermioMail, WriterPlace
<1>7. CASE RendererAborts
  BY <1>7 DEF RendererAborts, Block, Notifying, TermioMail,
     WriterPlace
<1>. QED
  BY <1>1, <1>2, <1>3, <1>4, <1>5, <1>6, <1>7 DEF ByRenderer, Renderer

(* The steps of the main thread keep mail for the io thread accounted for.   *)
LEMMA TermioMailMain ==
  ASSUME "writer" \notin Aborts, Inv, TermioMail, ByMain
  PROVE  TermioMail'
<1>. USE DEF Inv, Goto, Notify, Put, Take, Shape, Bounded, Threads, Queues,
    bounds
<1>1. CASE MainTicks
  BY <1>1 DEF MainTicks, Block, Notifying, TermioMail, WriterPlace
<1>2. CASE MainPops
  BY <1>2 DEF MainPops, Block, Notifying, TermioMail, WriterPlace
<1>3. CASE MainHandled
  BY <1>3 DEF MainHandled, Block, Notifying, TermioMail, WriterPlace
<1>4. CASE MainDrained
  BY <1>4 DEF MainDrained, Block, Notifying, TermioMail, WriterPlace
<1>5. CASE MainNotifies
  BY <1>5 DEF MainNotifies, Block, Notifying, TermioMail, WriterPlace
<1>6. CASE MainJoinsRenderer
  BY <1>6 DEF MainJoinsRenderer, Block, Notifying, TermioMail, WriterPlace
<1>7. CASE MainJoinsWriter
  BY <1>7 DEF MainJoinsWriter, Block, Notifying, TermioMail, WriterPlace
<1>8. CASE MainAborts
  BY <1>8 DEF MainAborts, Block, Notifying, TermioMail, WriterPlace
<1>9. CASE MainSendsTermio
  BY <1>9 DEF MainSendsTermio, Sending, Block, Notifying, TermioMail,
     WriterPlace
<1>10. CASE MainSendsLocked
  BY <1>10 DEF MainSendsLocked, Sending, Block, Notifying, TermioMail,
     WriterPlace
<1>11. CASE MainSendsRend
  BY <1>11 DEF MainSendsRend, Sending, Block, Notifying, TermioMail,
     WriterPlace
<1>12. CASE MainCloses
  BY <1>12 DEF MainCloses, Block, Notifying, TermioMail, WriterPlace
<1>. QED
  BY <1>1, <1>2, <1>3, <1>4, <1>5, <1>6, <1>7, <1>8, <1>9, <1>10, <1>11, <1>12
     DEF ByMain, Main, UserInput

(* The steps of the reader keep mail for the app accounted for.              *)
LEMMA AppMailReader ==
  ASSUME "main" \notin Aborts, Inv, AppMail, ByReader
  PROVE  AppMail'
<1>. USE DEF Inv, Goto, Block, Notify, Put, Take, Shape, Bounded, Threads,
    Queues, Notifying, bounds, AppMail, MainPlace, Scalars
<1>1. CASE BeginParse
  BY <1>1 DEF BeginParse
<1>2. CASE ResetCursorBlink
  BY <1>2 DEF ResetCursorBlink
<1>3. CASE EmitApp
  BY <1>3 DEF EmitApp, Emit
<1>4. CASE EmitTermio
  BY <1>4 DEF EmitTermio, Emit
<1>5. CASE EndParse
  BY <1>5 DEF EndParse
<1>6. CASE ReaderEnds
  BY <1>6 DEF ReaderEnds
<1>7. CASE BatchArrives
  BY <1>7 DEF BatchArrives
<1>. QED
  BY <1>1, <1>2, <1>3, <1>4, <1>5, <1>6, <1>7 DEF ByReader, Reader

(* The steps of the writer keep mail for the app accounted for.              *)
LEMMA AppMailWriter ==
  ASSUME "main" \notin Aborts, Inv, AppMail, ByWriter
  PROVE  AppMail'
<1>. USE DEF Inv, Goto, Block, Notify, Put, Take, Shape, Bounded, Threads,
    Queues, Notifying, bounds, AppMail, MainPlace, Scalars
<1>1. CASE WriterEnters
  BY <1>1 DEF WriterEnters
<1>2. CASE WriterStarts
  BY <1>2 DEF WriterStarts
<1>3. CASE WriterWakes
  BY <1>3 DEF WriterWakes
<1>4. CASE WriterPops
  BY <1>4 DEF WriterPops, Draining
<1>5. CASE WriterDrained
  BY <1>5 DEF WriterDrained, Draining
<1>6. CASE WriterLocked
  BY <1>6 DEF WriterLocked
<1>7. CASE WriterConfig
  BY <1>7 DEF WriterConfig
<1>8. CASE WriterResizes
  BY <1>8 DEF WriterResizes
<1>9. CASE WriterResized
  BY <1>9 DEF WriterResized
<1>10. CASE WriterStops
  BY <1>10 DEF WriterStops
<1>11. CASE WriterJoins
  BY <1>11 DEF WriterJoins
<1>12. CASE WriterStartFails
  BY <1>12 DEF WriterStartFails
<1>13. CASE WriterTellsApp
  BY <1>13 DEF WriterTellsApp, TellApp
<1>14. CASE WriterAborts
  BY <1>14 DEF WriterAborts, Draining
<1>15. CASE WriterAbandons
  BY <1>15 DEF WriterAbandons
<1>16. CASE WriterInputFails
  BY <1>16 DEF WriterInputFails
<1>17. CASE WriterRunsDry
  BY <1>17 DEF WriterRunsDry
<1>18. CASE WriterResizeFails
  BY <1>18 DEF WriterResizeFails
<1>. QED
  BY <1>1, <1>2, <1>3, <1>4, <1>5, <1>6, <1>7, <1>8, <1>9, <1>10, <1>11, <1>12,
     <1>13, <1>14, <1>15, <1>16, <1>17, <1>18 DEF ByWriter, Writer

(* The steps of the renderer keep mail for the app accounted for.            *)
LEMMA AppMailRenderer ==
  ASSUME "main" \notin Aborts, Inv, AppMail, ByRenderer
  PROVE  AppMail'
<1>. USE DEF Inv, Goto, Block, Notify, Put, Take, Shape, Bounded, Threads,
    Queues, Notifying, bounds, AppMail, MainPlace, Scalars
<1>1. CASE RendererWakes
  BY <1>1 DEF RendererWakes
<1>2. CASE RendererPops
  BY <1>2 DEF RendererPops
<1>3. CASE RendererDrained
  BY <1>3 DEF RendererDrained
<1>4. CASE RendererUpdates
  BY <1>4 DEF RendererUpdates
<1>5. CASE RendererDraws \/ RendererTellsApp
  <2>1. Shown
    BY <1>5, RendererShown, Zenon
  <2>. QED
    BY <2>1 DEF Shown, Same
<1>6. CASE RendererStops
  BY <1>6 DEF RendererStops
<1>7. CASE RendererAborts
  BY <1>7 DEF RendererAborts
<1>. QED
  BY <1>1, <1>2, <1>3, <1>4, <1>5, <1>6, <1>7 DEF ByRenderer, Renderer

(* The steps of the main thread keep mail for the app accounted for.         *)
LEMMA AppMailMain ==
  ASSUME "main" \notin Aborts, Inv, AppMail, ByMain
  PROVE  AppMail'
<1>. USE DEF Inv, Goto, Block, Notify, Put, Take, Shape, Bounded, Threads,
    Queues, Notifying, bounds, AppMail, MainPlace, Scalars
<1>1. CASE MainTicks
  BY <1>1 DEF MainTicks
<1>2. CASE MainPops
  BY <1>2 DEF MainPops
<1>3. CASE MainHandled
  BY <1>3 DEF MainHandled
<1>4. CASE MainDrained
  BY <1>4 DEF MainDrained
<1>5. CASE MainNotifies
  BY <1>5 DEF MainNotifies
<1>6. CASE MainJoinsRenderer
  BY <1>6 DEF MainJoinsRenderer
<1>7. CASE MainJoinsWriter
  BY <1>7 DEF MainJoinsWriter
<1>8. CASE MainAborts
  BY <1>8 DEF MainAborts
<1>9. CASE MainSendsTermio
  BY <1>9 DEF MainSendsTermio, Sending
<1>10. CASE MainSendsLocked
  BY <1>10 DEF MainSendsLocked, Sending
<1>11. CASE MainSendsRend
  BY <1>11 DEF MainSendsRend, Sending
<1>12. CASE MainCloses
  BY <1>12 DEF MainCloses
<1>. QED
  BY <1>1, <1>2, <1>3, <1>4, <1>5, <1>6, <1>7, <1>8, <1>9, <1>10, <1>11, <1>12
     DEF ByMain, Main, UserInput

(* The steps of the reader keep mail for the renderer accounted for.         *)
LEMMA RendMailReader ==
  ASSUME Inv, RendMail, ByReader
  PROVE  RendMail'
<1>. USE DEF Inv, Goto, Notify, Put, Take, Shape, Bounded, Threads, Queues,
    bounds
<1>1. CASE BeginParse
  BY <1>1 DEF BeginParse, Block, Notifying, RendMail, Drains
<1>2. CASE ResetCursorBlink
  <2>1. pc["reader"] = "cursor" /\ pc'["reader"] = "parse" /\ wake' = wake
        /\ len["rend"] \in Nat
        /\ len'["rend"] \in {len["rend"], len["rend"] + 1}
    BY <1>2, ConstantsAssumption DEF ResetCursorBlink
  <2>2. /\ Drains => Drains'
        /\ Notifying("renderer") => Notifying("renderer")'
    BY <1>2 DEF ResetCursorBlink, Notifying, Drains
  <2>. QED
    BY <2>1, <2>2 DEF RendMail
<1>3. CASE EmitApp
  BY <1>3 DEF EmitApp, Emit, Block, Notifying, RendMail, Drains
<1>4. CASE EmitTermio
  BY <1>4 DEF EmitTermio, Emit, Block, Notifying, RendMail, Drains
<1>5. CASE EndParse
  BY <1>5 DEF EndParse, Block, Notifying, RendMail, Drains
<1>6. CASE ReaderEnds
  BY <1>6 DEF ReaderEnds, Block, Notifying, RendMail, Drains
<1>7. CASE BatchArrives
  BY <1>7 DEF BatchArrives, Block, Notifying, RendMail, Drains
<1>. QED
  BY <1>1, <1>2, <1>3, <1>4, <1>5, <1>6, <1>7 DEF ByReader, Reader

(* The steps of the writer keep mail for the renderer accounted for.         *)
LEMMA RendMailWriter ==
  ASSUME Inv, RendMail, ByWriter
  PROVE  RendMail'
<1>0. Drains => Drains'
  <2>1. Same("renderer")
    BY WriterSteps, Zenon DEF Inv
  <2>. QED
    BY <2>1 DEF Same, Drains
<1>. USE <1>0 DEF Inv, Goto, Notify, Put, Take, Shape, Bounded, Threads, Queues,
    bounds
<1>1. CASE WriterEnters
  BY <1>1 DEF WriterEnters, Block, Notifying, RendMail
<1>2. CASE WriterStarts
  BY <1>2 DEF WriterStarts, Block, Notifying, RendMail
<1>3. CASE WriterWakes
  BY <1>3 DEF WriterWakes, Block, Notifying, RendMail
<1>4. CASE WriterPops
  BY <1>4 DEF WriterPops, Draining, Block, Notifying, RendMail
<1>5. CASE WriterDrained
  BY <1>5 DEF WriterDrained, Draining, Block, Notifying, RendMail
<1>6. CASE WriterLocked
  BY <1>6 DEF WriterLocked, Block, Notifying, RendMail
<1>7. CASE WriterConfig
  BY <1>7 DEF WriterConfig, Block, Notifying, RendMail
<1>8. CASE WriterResizes
  BY <1>8 DEF WriterResizes, Block, Notifying, RendMail
<1>9. CASE WriterResized
  BY <1>9 DEF WriterResized, Block, Notifying, RendMail
<1>10. CASE WriterStops
  BY <1>10 DEF WriterStops, Block, Notifying, RendMail
<1>11. CASE WriterJoins
  BY <1>11 DEF WriterJoins, Block, Notifying, RendMail
<1>12. CASE WriterStartFails
  BY <1>12 DEF WriterStartFails, Block, Notifying, RendMail
<1>13. CASE WriterTellsApp
  BY <1>13 DEF WriterTellsApp, TellApp, Block, Notifying, RendMail
<1>14. CASE WriterAborts
  BY <1>14 DEF WriterAborts, Draining, Block, Notifying, RendMail
<1>15. CASE WriterAbandons
  BY <1>15 DEF WriterAbandons, Block, Notifying, RendMail
<1>16. CASE WriterInputFails
  BY <1>16 DEF WriterInputFails, Block, Notifying, RendMail
<1>17. CASE WriterRunsDry
  BY <1>17 DEF WriterRunsDry, Block, Notifying, RendMail
<1>18. CASE WriterResizeFails
  BY <1>18 DEF WriterResizeFails, Block, Notifying, RendMail
<1>. QED
  BY <1>1, <1>2, <1>3, <1>4, <1>5, <1>6, <1>7, <1>8, <1>9, <1>10, <1>11, <1>12,
     <1>13, <1>14, <1>15, <1>16, <1>17, <1>18 DEF ByWriter, Writer

(* The steps of the renderer keep mail for the renderer accounted for.       *)
LEMMA RendMailRenderer ==
  ASSUME "renderer" \notin Aborts, Inv, RendMail, ByRenderer
  PROVE  RendMail'
<1>. USE DEF Inv, Goto, Notify, Put, Take, Shape, Bounded, Threads, Queues,
    bounds
<1>1. CASE RendererWakes
  BY <1>1 DEF RendererWakes, Block, Notifying, RendMail, Drains
<1>2. CASE RendererPops
  BY <1>2 DEF RendererPops, Block, Notifying, RendMail, Drains
<1>3. CASE RendererDrained
  BY <1>3 DEF RendererDrained, Block, Notifying, RendMail, Drains
<1>4. CASE RendererUpdates
  BY <1>4 DEF RendererUpdates, Block, Notifying, RendMail, Drains
<1>5. CASE RendererDraws \/ RendererTellsApp
  <2>1. Shown
    BY <1>5, RendererShown, Zenon
  <2>. QED
    BY <2>1 DEF Shown, RendMail, Notifying, Same
<1>6. CASE RendererStops
  BY <1>6 DEF RendererStops, Block, Notifying, RendMail, Drains
<1>7. CASE RendererAborts
  BY <1>7 DEF RendererAborts, Block, Notifying, RendMail, Drains
<1>. QED
  BY <1>1, <1>2, <1>3, <1>4, <1>5, <1>6, <1>7 DEF ByRenderer, Renderer

(* The steps of the main thread keep mail for the renderer accounted for.    *)
LEMMA RendMailMain ==
  ASSUME Inv, RendMail, ByMain
  PROVE  RendMail'
<1>. USE DEF Inv, Goto, Notify, Put, Take, Shape, Bounded, Threads, Queues,
    bounds
<1>1. CASE MainTicks
  BY <1>1 DEF MainTicks, Block, Notifying, RendMail, Drains
<1>2. CASE MainPops
  BY <1>2 DEF MainPops, Block, Notifying, RendMail, Drains
<1>3. CASE MainHandled
  BY <1>3 DEF MainHandled, Block, Notifying, RendMail, Drains
<1>4. CASE MainDrained
  BY <1>4 DEF MainDrained, Block, Notifying, RendMail, Drains
<1>5. CASE MainNotifies
  BY <1>5 DEF MainNotifies, Block, Notifying, RendMail, Drains
<1>6. CASE MainJoinsRenderer
  BY <1>6 DEF MainJoinsRenderer, Block, Notifying, RendMail, Drains
<1>7. CASE MainJoinsWriter
  BY <1>7 DEF MainJoinsWriter, Block, Notifying, RendMail, Drains
<1>8. CASE MainAborts
  BY <1>8 DEF MainAborts, Block, Notifying, RendMail, Drains
<1>9. CASE MainSendsTermio
  BY <1>9 DEF MainSendsTermio, Sending, Block, Notifying, RendMail, Drains
<1>10. CASE MainSendsLocked
  BY <1>10 DEF MainSendsLocked, Sending, Block, Notifying, RendMail, Drains
<1>11. CASE MainSendsRend
  BY <1>11 DEF MainSendsRend, Sending, Block, Notifying, RendMail, Drains
<1>12. CASE MainCloses
  BY <1>12 DEF MainCloses, Block, Notifying, RendMail, Drains
<1>. QED
  BY <1>1, <1>2, <1>3, <1>4, <1>5, <1>6, <1>7, <1>8, <1>9, <1>10, <1>11, <1>12
     DEF ByMain, Main, UserInput

(* A push that returns leaves all mail accounted for: the sender has yet to  *)
(* notify, or the push to the app wakes it.                                  *)
LEMMA MailResumes ==
  ASSUME Inv, NEW t \in Threads, ResumePush(t)
  PROVE  /\ TermioMail => TermioMail'
         /\ AppMail => AppMail'
         /\ RendMail => RendMail'
<1>. DEFINE q == push[t].queue
<1>1. /\ \A u \in Threads \ {t} : Same(u)
      /\ pc[t] = "push"
      /\ pc'[t] = IF push[t].relock THEN "relock" ELSE push[t].then
      /\ push[t].relock => push' = push
      /\ messaged' = messaged /\ back' = back
  BY DEF Inv, Shape, ResumePush, Goto, Same
<1>2. /\ \A r \in Queues \ {q} : len'[r] = len[r]
      /\ \A u \in Threads : wake[u] => wake'[u]
      /\ q = "app" => wake'["main"]
  BY DEF Inv, Shape, Bounded, ResumePush, Put, Notify, Threads
<1>3. TermioMail => TermioMail'
  <2>1. CASE q = "termio"
    <3>1. t # "writer"
      BY <1>1, <2>1 DEF Inv, WriterPlace, ResumePush
    <3>2. Notifying("writer")'
      BY <1>1, <2>1, <3>1 DEF Inv, MainPlace, ReaderPlace, RendererPlace,
         Notifying, Threads
    <3>. QED
      BY <3>2 DEF TermioMail
  <2>2. CASE q # "termio"
    <3>1. len'["termio"] = len["termio"] /\ (wake["writer"] => wake'["writer"])
      BY <1>2, <2>2 DEF Queues, Threads
    <3>2. Notifying("writer") => Notifying("writer")'
      BY <1>1, <2>2 DEF Inv, MainPlace, ReaderPlace, Notifying, Same, Threads
    <3>3. pc["writer"] \in {"drain", "redraw", "locked", "config"} =>
            pc'["writer"] = pc["writer"]
      BY <1>1 DEF Same, Threads
    <3>. QED
      BY <3>1, <3>2, <3>3 DEF TermioMail
  <2>. QED
    BY <2>1, <2>2
<1>4. AppMail => AppMail'
  <2>1. CASE q = "app"
    BY <1>2, <2>1 DEF AppMail
  <2>2. CASE q # "app"
    <3>1. len'["app"] = len["app"] /\ (wake["main"] => wake'["main"])
      BY <1>2, <2>2 DEF Queues, Threads
    <3>2. \/ pc'["main"] = pc["main"]
          \/ pc["main"] = "push" /\ pc'["main"] # "loop"
      BY <1>1, <2>2 DEF Inv, MainPlace, Same, Threads
    <3>. QED
      BY <1>1, <3>1, <3>2 DEF AppMail
  <2>. QED
    BY <2>1, <2>2
<1>5. RendMail => RendMail'
  <2>1. CASE q = "rend"
    <3>1. t \in {"main", "writer"}
      BY <1>1, <2>1 DEF Inv, ReaderPlace, RendererPlace, Threads
    <3>2. Notifying("renderer")'
      BY <1>1, <2>1, <3>1 DEF Inv, MainPlace, WriterPlace, Notifying, Threads
    <3>. QED
      BY <3>2 DEF RendMail
  <2>2. CASE q # "rend"
    <3>1. len'["rend"] = len["rend"] /\ (wake["renderer"] => wake'["renderer"])
      BY <1>2, <2>2 DEF Queues, Threads
    <3>2. Notifying("renderer") => Notifying("renderer")'
      BY <1>1 DEF Same, Notifying, Threads
    <3>3. /\ Drains => Drains'
          /\ pc["reader"] # "cursor" => pc'["reader"] # "cursor"
      BY <1>1 DEF Inv, ReaderPlace, RendererPlace, Drains, Same, Threads
    <3>. QED
      BY <3>1, <3>2, <3>3 DEF RendMail
  <2>. QED
    BY <2>1, <2>2
<1>. QED
  BY <1>3, <1>4, <1>5

(* So does a sender that takes the mutex back.                               *)
LEMMA MailRelocks ==
  ASSUME Inv, NEW t \in Threads, Relock(t)
  PROVE  /\ TermioMail => TermioMail'
         /\ AppMail => AppMail'
         /\ RendMail => RendMail'
<1>1. /\ \A u \in Threads \ {t} : Same(u)
      /\ pc[t] = "relock" /\ pc'[t] = push[t].then
      /\ UNCHANGED <<len, wake, back>>
      /\ messaged' = (messaged \/ (push[t].queue = "termio" /\ t # "main"))
  BY DEF Inv, Shape, Relock, Goto, Same
<1>2. t \in {"main", "reader"}
  BY <1>1 DEF Inv, WriterPlace, RendererPlace, Threads
<1>3. Notifying("writer") => Notifying("writer")'
  <2>1. CASE t = "main"
    <3>1. push["main"].queue = "termio" /\ pc'["main"] = "notify writer"
      BY <1>1, <2>1 DEF Inv, MainPlace
    <3>. QED
      BY <3>1 DEF Notifying
  <2>2. CASE t = "reader"
    <3>1. pc'["main"] = pc["main"] /\ push'["main"] = push["main"]
      BY <1>1, <2>2 DEF Same, Threads
    <3>2. /\ pc["reader"] = "relock" /\ pc'["reader"] = "parse"
          /\ messaged \/ push["reader"].queue = "termio" => messaged'
      BY <1>1, <2>2 DEF Inv, ReaderPlace
    <3>. QED
      BY <3>1, <3>2 DEF Notifying
  <2>. QED
    BY <1>2, <2>1, <2>2
<1>4. Notifying("renderer") => Notifying("renderer")'
  BY <1>1, <1>2 DEF Inv, MainPlace, Notifying, Same, Threads
<1>5. /\ pc'["writer"] = pc["writer"] /\ (Drains => Drains')
      /\ pc["reader"] # "cursor" => pc'["reader"] # "cursor"
      /\ \/ pc'["main"] = pc["main"]
         \/ pc["main"] = "relock" /\ pc'["main"] # "loop"
  BY <1>1, <1>2 DEF Inv, MainPlace, ReaderPlace, Drains, Same, Threads
<1>6. (TermioMail => TermioMail') /\ (RendMail => RendMail')
  BY <1>1, <1>3, <1>4, <1>5 DEF TermioMail, RendMail
<1>7. AppMail => AppMail'
  BY <1>1, <1>5 DEF AppMail
<1>. QED
  BY <1>6, <1>7

(* All mail is accounted for.                                                *)
MailInv ==
  /\ "writer" \notin Aborts => TermioMail
  /\ "main" \notin Aborts => AppMail
  /\ "renderer" \notin Aborts => RendMail

(* Every step leaves all mail accounted for.                                 *)
LEMMA MailStep == ASSUME Inv, MailInv, [Next]_vars PROVE MailInv'
<1>1. CASE ByReader
  BY <1>1, TermioMailReader, AppMailReader, RendMailReader DEF Inv, MailInv
<1>2. CASE ByWriter
  BY <1>2, TermioMailWriter, AppMailWriter, RendMailWriter DEF Inv, MailInv
<1>3. CASE ByRenderer
  BY <1>3, TermioMailRenderer, AppMailRenderer, RendMailRenderer DEF Inv,
     MailInv
<1>4. CASE ByMain
  BY <1>4, TermioMailMain, AppMailMain, RendMailMain DEF Inv, MailInv
<1>5. CASE \E t \in Threads : ResumePush(t) \/ Relock(t)
  BY <1>5, MailResumes, MailRelocks DEF MailInv
<1>6. CASE UNCHANGED vars
  BY <1>6 DEF MailInv, TermioMail, AppMail, RendMail, Drains, Notifying, vars
<1>. QED
  BY <1>1, <1>2, <1>3, <1>4, <1>5, <1>6, StepCases

(* All mail is accounted for in every reachable state.                       *)
LEMMA MailHolds == Spec => []MailInv
<1>1. Init => MailInv
  BY DEF Init, MailInv, TermioMail, AppMail, RendMail, Queues, Threads
<1>2. Inv /\ MailInv /\ [Next]_vars => MailInv'
  BY MailStep
<1>. QED
  BY <1>1, <1>2, InvHolds, PTL DEF Spec

(* termio/Thread.zig:466, "Mailbox producers should wake up our thread after *)
(* publishing": no message lies in the io thread's mailbox while the thread  *)
(* sleeps, unless its wakeup is set or the sender has yet to notify. A       *)
(* handler that fails ends the drain and leaves the rest lying, hence the    *)
(* hypothesis.                                                               *)
THEOREM MailIsRead ==
  ASSUME "writer" \notin Aborts PROVE Spec => []MailWillBeRead
<1>1. MailInv => MailWillBeRead
  BY DEF MailInv, TermioMail, MailWillBeRead
<1>. QED
  BY <1>1, MailHolds, PTL

(* No lost wakeup between a full mailbox and a push that waits for room. The *)
(* hypotheses exclude what the code does break it with: a drain that ends    *)
(* early, and a renderer mailbox of one message, which the unnotified        *)
(* reset_cursor_blink fills by itself.                                       *)
THEOREM NoSenderStranded ==
  ASSUME Aborts = {}, Cap["rend"] > 1 PROVE Spec => []NoStrandedSender
<1>1. Inv /\ MailInv => NoStrandedSender
  <2>. SUFFICES ASSUME Inv, MailInv, NEW q \in Queues, ~Room(q),
                       pc[Consumer[q]] = "loop"
                PROVE  \/ wake[Consumer[q]]
                       \/ q = "termio" /\ Notifying("writer")
                       \/ q = "rend" /\ Notifying("renderer")
    BY DEF NoStrandedSender
  <2>1. len[q] > 0 /\ (q = "rend" => len[q] > 1)
    BY ConstantsAssumption DEF Inv, Bounded, Room
  <2>2. /\ q = "app" => Consumer[q] = "main"
        /\ q = "termio" => Consumer[q] = "writer"
        /\ q = "rend" => Consumer[q] = "renderer"
    BY DEF Consumer
  <2>3. CASE q = "app"
    BY <2>1, <2>2, <2>3 DEF MailInv, AppMail
  <2>4. CASE q = "termio"
    BY <2>1, <2>2, <2>4 DEF MailInv, TermioMail
  <2>5. CASE q = "rend"
    <3>1. RendMail
      BY Zenon DEF MailInv
    <3>2. pc["renderer"] = "loop" /\ ~Drains
      BY <2>2, <2>5 DEF Drains
    <3>. QED
      BY <2>1, <2>2, <2>5, <3>1, <3>2 DEF RendMail
  <2>. QED
    BY <2>3, <2>4, <2>5 DEF Queues
<1>. QED
  BY <1>1, InvHolds, MailHolds, PTL

(* The writer has yet to ask for a redraw of what it changed, or has ended,  *)
(* or never got to its mailbox.                                              *)
Owing ==
  \/ pc["writer"] \in {"redraw", "locked", "config", "resized", "stranded",
                       "ended"}
  \/ /\ pc["writer"] = "push"
     /\ \/ push["writer"].queue \in {"rend", "termio"}
        \/ push["writer"].then = "stranded"

(* The renderer is about to read the terminal, or is told to stop.           *)
Coming ==
  \/ wake["renderer"] \/ stop["renderer"]
  \/ pc["renderer"] = "update" \/ Drains

(* A batch begins with a render that is queued and cannot be over before it  *)
(* ends, for the renderer needs the mutex; a change by the writer waits for  *)
(* its redraw.                                                               *)
ChangeInv ==
  /\ pc["reader"] # "relock"
  /\ pc["reader"] \in {"cursor", "parse"} => Coming
  /\ (changed /\ pc["reader"] \notin {"cursor", "parse"} /\ ~Owing) => Coming

(* The steps of the reader keep changes of the terminal on their way to the  *)
(* screen.                                                                   *)
LEMMA ChangeReader ==
  ASSUME "writer" \notin Aborts, Inv, ChangeInv,
         pc'["reader"] # "push", ByReader
  PROVE  ChangeInv'
<1>. USE DEF Inv, Goto, Block, Notify, Shape, Threads, bounds, Owing, Coming,
    Drains, ChangeInv
<1>1. CASE BeginParse
  BY <1>1 DEF BeginParse
<1>2. CASE ResetCursorBlink
  BY <1>2 DEF ResetCursorBlink
<1>3. CASE EmitApp
  BY <1>3 DEF EmitApp, Emit
<1>4. CASE EmitTermio
  BY <1>4 DEF EmitTermio, Emit
<1>5. CASE EndParse
  BY <1>5 DEF EndParse
<1>6. CASE ReaderEnds
  BY <1>6 DEF ReaderEnds
<1>7. CASE BatchArrives
  BY <1>7 DEF BatchArrives
<1>. QED
  BY <1>1, <1>2, <1>3, <1>4, <1>5, <1>6, <1>7 DEF ByReader, Reader

(* The steps of the writer keep changes of the terminal on their way to the  *)
(* screen.                                                                   *)
LEMMA ChangeWriter ==
  ASSUME "writer" \notin Aborts, Inv, ChangeInv,
         pc'["reader"] # "push", ByWriter
  PROVE  ChangeInv'
<1>0. Drains => Drains'
  <2>1. Same("renderer")
    BY WriterSteps, Zenon DEF Inv
  <2>. QED
    BY <2>1 DEF Same, Drains
<1>. USE <1>0 DEF Inv, Goto, Block, Notify, Shape, Threads, bounds, Owing, Coming,
    ChangeInv
<1>1. CASE WriterEnters
  BY <1>1 DEF WriterEnters
<1>2. CASE WriterStarts
  BY <1>2 DEF WriterStarts
<1>3. CASE WriterWakes
  BY <1>3 DEF WriterWakes
<1>4. CASE WriterPops
  BY <1>4 DEF WriterPops, Draining
<1>5. CASE WriterDrained
  BY <1>5 DEF WriterDrained, Draining
<1>6. CASE WriterLocked
  BY <1>6 DEF WriterLocked
<1>7. CASE WriterConfig
  BY <1>7 DEF WriterConfig
<1>8. CASE WriterResizes
  BY <1>8 DEF WriterResizes
<1>9. CASE WriterResized
  BY <1>9 DEF WriterResized
<1>10. CASE WriterStops
  BY <1>10 DEF WriterStops
<1>11. CASE WriterJoins
  BY <1>11 DEF WriterJoins
<1>12. CASE WriterStartFails
  BY <1>12 DEF WriterStartFails
<1>13. CASE WriterTellsApp
  BY <1>13 DEF WriterTellsApp, TellApp
<1>14. CASE WriterAborts
  BY <1>14 DEF WriterAborts, Draining
<1>15. CASE WriterAbandons
  BY <1>15 DEF WriterAbandons
<1>16. CASE WriterInputFails
  BY <1>16 DEF WriterInputFails
<1>17. CASE WriterRunsDry
  BY <1>17 DEF WriterRunsDry
<1>18. CASE WriterResizeFails
  BY <1>18 DEF WriterResizeFails
<1>. QED
  BY <1>1, <1>2, <1>3, <1>4, <1>5, <1>6, <1>7, <1>8, <1>9, <1>10, <1>11, <1>12,
     <1>13, <1>14, <1>15, <1>16, <1>17, <1>18 DEF ByWriter, Writer

(* The steps of the renderer keep changes of the terminal on their way to    *)
(* the screen.                                                               *)
LEMMA ChangeRenderer ==
  ASSUME "writer" \notin Aborts, Inv, ChangeInv,
         pc'["reader"] # "push", ByRenderer
  PROVE  ChangeInv'
<1>. USE DEF Inv, Goto, Block, Notify, Shape, Threads, bounds, Owing, Coming,
    Drains, ChangeInv
<1>1. CASE RendererWakes
  BY <1>1 DEF RendererWakes
<1>2. CASE RendererPops
  BY <1>2 DEF RendererPops
<1>3. CASE RendererDrained
  BY <1>3 DEF RendererDrained
<1>4. CASE RendererUpdates
  BY <1>4 DEF RendererUpdates, Holders
<1>5. CASE RendererDraws \/ RendererTellsApp
  <2>1. Shown
    BY <1>5, RendererShown, Zenon
  <2>. QED
    BY <2>1 DEF Shown, Same
<1>6. CASE RendererStops
  BY <1>6 DEF RendererStops
<1>7. CASE RendererAborts
  BY <1>7 DEF RendererAborts
<1>. QED
  BY <1>1, <1>2, <1>3, <1>4, <1>5, <1>6, <1>7 DEF ByRenderer, Renderer

(* The steps of the main thread keep changes of the terminal on their way to *)
(* the screen.                                                               *)
LEMMA ChangeMain ==
  ASSUME "writer" \notin Aborts, Inv, ChangeInv,
         pc'["reader"] # "push", ByMain
  PROVE  ChangeInv'
<1>. USE DEF Inv, Goto, Block, Notify, Shape, Threads, bounds, Owing, Coming,
    Drains, ChangeInv
<1>1. CASE MainTicks
  BY <1>1 DEF MainTicks
<1>2. CASE MainPops
  BY <1>2 DEF MainPops
<1>3. CASE MainHandled
  BY <1>3 DEF MainHandled
<1>4. CASE MainDrained
  BY <1>4 DEF MainDrained
<1>5. CASE MainNotifies
  BY <1>5 DEF MainNotifies
<1>6. CASE MainJoinsRenderer
  BY <1>6 DEF MainJoinsRenderer
<1>7. CASE MainJoinsWriter
  BY <1>7 DEF MainJoinsWriter
<1>8. CASE MainAborts
  BY <1>8 DEF MainAborts
<1>9. CASE MainSendsTermio
  <2>1. Same("reader") /\ Same("writer") /\ Same("renderer")
    BY <1>9, MainSteps DEF ByMain, UserInput
  <2>2. UNCHANGED <<stop, changed>> /\ (wake["renderer"] => wake'["renderer"])
    BY <1>9 DEF MainSendsTermio, Sending
  <2>. QED
    BY <2>1, <2>2 DEF Same
<1>10. CASE MainSendsLocked
  BY <1>10 DEF MainSendsLocked, Sending
<1>11. CASE MainSendsRend
  <2>1. Same("reader") /\ Same("writer") /\ Same("renderer")
    BY <1>11, MainSteps DEF ByMain, UserInput
  <2>2. UNCHANGED <<stop, changed>> /\ (wake["renderer"] => wake'["renderer"])
    BY <1>11 DEF MainSendsRend, Sending
  <2>. QED
    BY <2>1, <2>2 DEF Same
<1>12. CASE MainCloses
  BY <1>12 DEF MainCloses
<1>. QED
  BY <1>1, <1>2, <1>3, <1>4, <1>5, <1>6, <1>7, <1>8, <1>9, <1>10, <1>11, <1>12
     DEF ByMain, Main, UserInput

(* A push that returns or takes the mutex back keeps changes on their way,   *)
(* if the reader is not the one that waits.                                  *)
LEMMA ChangeResumes ==
  ASSUME Inv, ChangeInv, pc["reader"] # "push",
         NEW t \in Threads, ResumePush(t) \/ Relock(t)
  PROVE  ChangeInv'
<1>0. /\ pc[t] \in {"push", "relock"} /\ \A u \in Threads \ {t} : Same(u)
      /\ UNCHANGED <<stop, changed>> /\ (wake["renderer"] => wake'["renderer"])
  <2>1. CASE ResumePush(t)
    BY <2>1 DEF Inv, Shape, ResumePush, Goto, Notify, Same, Threads
  <2>2. CASE Relock(t)
    BY <2>2 DEF Inv, Shape, Relock, Goto, Same, Threads
  <2>. QED
    BY <2>1, <2>2
<1>1. t # "reader" /\ pc'["reader"] = pc["reader"]
  BY <1>0 DEF ChangeInv, Same, Threads
<1>2. /\ Drains => Drains'
      /\ pc["renderer"] = "update" => pc'["renderer"] = "update"
  <2>1. CASE t = "renderer"
    <3>1. ResumePush("renderer") /\ pc["renderer"] = "push"
      BY <2>1 DEF Inv, RendererPlace, Relock, ResumePush
    <3>2. pc'["renderer"] = push["renderer"].then
      BY <3>1 DEF Inv, Shape, RendererPlace, ResumePush, Goto
    <3>. QED
      BY <3>1, <3>2 DEF Drains
  <2>2. CASE t # "renderer"
    BY <1>0, <2>2 DEF Drains, Same, Threads
  <2>. QED
    BY <2>1, <2>2
<1>4. Owing => Owing'
  <2>1. CASE t = "writer"
    <3>1. ResumePush("writer") /\ pc["writer"] = "push"
      BY <2>1 DEF Inv, WriterPlace, Relock, ResumePush
    <3>2. push["writer"].queue = "rend" => pc'["writer"] = "resized"
      BY <3>1 DEF Inv, Shape, WriterPlace, ResumePush, Goto
    <3>3. push["writer"].queue # "termio"
      BY <3>1 DEF Inv, WriterPlace, ResumePush
    <3>4. push["writer"].then = "stranded" => pc'["writer"] = "stranded"
      BY <3>1, <3>3 DEF Inv, Shape, WriterPlace, ResumePush, Goto
    <3>. QED
      BY <3>1, <3>2, <3>3, <3>4 DEF Owing
  <2>2. CASE t # "writer"
    <3>1. Same("writer")
      BY <1>0, <2>2 DEF Threads
    <3>. QED
      BY <3>1 DEF Owing, Same
  <2>. QED
    BY <2>1, <2>2
<1>. QED
  BY <1>0, <1>1, <1>2, <1>4 DEF ChangeInv, Coming

(* Termio.zig:685, "Schedule a render. We can call this first because we     *)
(* have the lock": a change of the terminal has been read by the renderer or *)
(* will be, in every behaviour in which the stream handler never waits for   *)
(* room. When it does, it has given the lock up, and the render that was     *)
(* scheduled may be over before the rest of the batch is parsed.             *)
THEOREM ChangesAreShown ==
  ASSUME "writer" \notin Aborts
  PROVE  Spec /\ [](pc["reader"] # "push") => []ChangesWillBeShown
<1>1. Init => ChangeInv
  BY DEF Init, ChangeInv, Threads
<1>2. ASSUME Inv, ChangeInv, [Next]_vars,
             pc["reader"] # "push", (pc["reader"] # "push")'
      PROVE  ChangeInv'
  <2>1. CASE ByReader \/ ByWriter \/ ByRenderer \/ ByMain
    BY <1>2, <2>1, ChangeReader, ChangeWriter, ChangeRenderer, ChangeMain DEF
       Inv
  <2>2. CASE \E t \in Threads : ResumePush(t) \/ Relock(t)
    BY <1>2, <2>2, ChangeResumes
  <2>3. CASE UNCHANGED vars
    BY <1>2, <2>3 DEF vars, ChangeInv, Coming, Owing, Drains
  <2>. QED
    BY <1>2, <2>1, <2>2, <2>3, StepCases
<1>3. ChangeInv => ChangesWillBeShown
  BY DEF ChangeInv, Coming, Owing, Drains, ChangesWillBeShown
<1>. QED
  BY <1>1, <1>2, <1>3, InvHolds, PTL DEF Spec

(* All the mail there can be within the bounds.                            *)
Total == MaxSends + MaxBatches * MaxEmits

(* What has been sent and what can still be sent is no more than that, and   *)
(* nobody waits for room there.                                              *)
Budget ==
  /\ len["app"] + len["termio"] + sends + emits + batches * MaxEmits <= Total
  /\ \A t \in Threads : push[t].queue \notin {"app", "termio"}
  /\ pc["writer"] # "config"

(* The mailboxes of the app and the io thread hold all that can be sent.     *)
Ample == Cap["app"] >= Total /\ Cap["termio"] >= Total

(* With a message left to send there is room for it.                         *)
LEMMA BudgetFacts ==
  ASSUME Inv, Budget, Ample
  PROVE  /\ len["app"] \in Nat /\ len["termio"] \in Nat
         /\ sends \in Nat /\ emits \in Nat
         /\ Total \in Nat /\ batches * MaxEmits \in Nat
         /\ (emits > 0 \/ sends > 0) => Room("app") /\ Room("termio")
         /\ (batches - 1) * MaxEmits = batches * MaxEmits - MaxEmits
<1>1. /\ batches \in Nat /\ sends \in Nat /\ emits \in Nat
      /\ MaxBatches \in Nat /\ MaxEmits \in Nat /\ MaxSends \in Nat
      /\ \A q \in Queues : Cap[q] \in Nat /\ len[q] \in 0 .. Cap[q]
  BY ConstantsAssumption DEF Inv, Scalars, Bounded
<1>2. /\ len["app"] \in Nat /\ len["termio"] \in Nat
      /\ Cap["app"] \in Nat /\ Cap["termio"] \in Nat
  BY <1>1 DEF Queues
<1>3. batches * MaxEmits \in Nat /\ MaxBatches * MaxEmits \in Nat
  BY <1>1
<1>4. (batches - 1) * MaxEmits = batches * MaxEmits - MaxEmits
  BY <1>1
<1>5. Total \in Nat
  BY <1>1, <1>3 DEF Total
<1>6. (emits > 0 \/ sends > 0) => Room("app") /\ Room("termio")
  BY <1>1, <1>2, <1>3, <1>5 DEF Budget, Ample, Room
<1>. QED
  BY <1>1, <1>2, <1>3, <1>4, <1>5, <1>6

(* The steps of the reader keep room for all messages there can be.          *)
LEMMA BudgetReader ==
  ASSUME Inv, Budget, Ample, "config" \notin WriterWork, ByReader
  PROVE  Budget'
<1>. USE BudgetFacts DEF Inv, Goto, Block, Put, Take, Room, Shape, Bounded,
    Threads, Queues, bounds, Budget
<1>1. CASE BeginParse
  BY <1>1 DEF BeginParse
<1>2. CASE ResetCursorBlink
  BY <1>2 DEF ResetCursorBlink
<1>3. CASE EmitApp
  BY <1>3 DEF EmitApp, Emit
<1>4. CASE EmitTermio
  BY <1>4 DEF EmitTermio, Emit
<1>5. CASE EndParse
  BY <1>5 DEF EndParse
<1>6. CASE ReaderEnds
  BY <1>6 DEF ReaderEnds
<1>7. CASE BatchArrives
  <2>1. /\ batches > 0 /\ batches' = batches - 1 /\ emits' = MaxEmits
        /\ len' = len /\ sends' = sends /\ push' = push
        /\ pc'["writer"] = pc["writer"]
    BY <1>7 DEF BatchArrives
  <2>2. MaxEmits \in Nat
    BY ConstantsAssumption
  <2>. QED
    BY <2>1, <2>2
<1>. QED
  BY <1>1, <1>2, <1>3, <1>4, <1>5, <1>6, <1>7 DEF ByReader, Reader

(* The steps of the writer keep room for all messages there can be.          *)
LEMMA BudgetWriter ==
  ASSUME Inv, Budget, Ample, "config" \notin WriterWork, ByWriter
  PROVE  Budget'
<1>. USE BudgetFacts DEF Inv, Goto, Block, Put, Take, Room, Shape, Bounded,
    Threads, Queues, bounds, Budget
<1>1. CASE WriterEnters
  BY <1>1 DEF WriterEnters
<1>2. CASE WriterStarts
  BY <1>2 DEF WriterStarts
<1>3. CASE WriterWakes
  BY <1>3 DEF WriterWakes
<1>4. CASE WriterPops
  BY <1>4 DEF WriterPops, Draining
<1>5. CASE WriterDrained
  BY <1>5 DEF WriterDrained, Draining
<1>6. CASE WriterLocked
  BY <1>6 DEF WriterLocked
<1>7. CASE WriterConfig
  BY <1>7 DEF WriterConfig
<1>8. CASE WriterResizes
  BY <1>8 DEF WriterResizes
<1>9. CASE WriterResized
  BY <1>9 DEF WriterResized
<1>10. CASE WriterStops
  BY <1>10 DEF WriterStops
<1>11. CASE WriterJoins
  BY <1>11 DEF WriterJoins
<1>12. CASE WriterStartFails
  BY <1>12 DEF WriterStartFails
<1>13. CASE WriterTellsApp
  BY <1>13 DEF WriterTellsApp, TellApp
<1>14. CASE WriterAborts
  BY <1>14 DEF WriterAborts, Draining
<1>15. CASE WriterAbandons
  BY <1>15 DEF WriterAbandons
<1>16. CASE WriterInputFails
  BY <1>16 DEF WriterInputFails
<1>17. CASE WriterRunsDry
  BY <1>17 DEF WriterRunsDry
<1>18. CASE WriterResizeFails
  BY <1>18 DEF WriterResizeFails
<1>. QED
  BY <1>1, <1>2, <1>3, <1>4, <1>5, <1>6, <1>7, <1>8, <1>9, <1>10, <1>11, <1>12,
     <1>13, <1>14, <1>15, <1>16, <1>17, <1>18 DEF ByWriter, Writer

(* The steps of the renderer keep room for all messages there can be.        *)
LEMMA BudgetRenderer ==
  ASSUME Inv, Budget, Ample, "config" \notin WriterWork, ByRenderer
  PROVE  Budget'
<1>. USE BudgetFacts DEF Inv, Goto, Block, Put, Take, Room, Shape, Bounded,
    Threads, Queues, bounds, Budget
<1>1. CASE RendererWakes
  BY <1>1 DEF RendererWakes
<1>2. CASE RendererPops
  BY <1>2 DEF RendererPops
<1>3. CASE RendererDrained
  BY <1>3 DEF RendererDrained
<1>4. CASE RendererUpdates
  BY <1>4 DEF RendererUpdates
<1>5. CASE RendererDraws
  <2>1. /\ push' = push /\ UNCHANGED <<emits, batches>>
        /\ pc'["writer"] = pc["writer"]
        /\ \/ sends > 0 /\ sends' = sends - 1 /\ Put("app")
           \/ sends' = sends /\ len' = len
    BY <1>5, RendererShown, Zenon DEF RendererDraws, Shown, Same
  <2>. QED
    BY <2>1
<1>6. CASE RendererStops
  BY <1>6 DEF RendererStops
<1>7. CASE RendererTellsApp
  <2>1. /\ sends > 0 /\ sends' = sends - 1 /\ UNCHANGED <<emits, batches>>
    BY <1>7, Zenon DEF RendererTellsApp, TellApp
  <2>2. Room("app")
    BY <2>1
  <2>3. push' = push /\ Put("app")
    BY <1>7, <2>2, Zenon DEF RendererTellsApp, TellApp
  <2>4. pc'["writer"] = pc["writer"]
    BY <1>7, RendererShown, Zenon DEF Shown, Same
  <2>. QED
    BY <2>1, <2>3, <2>4
<1>8. CASE RendererAborts
  BY <1>8 DEF RendererAborts
<1>. QED
  BY <1>1, <1>2, <1>3, <1>4, <1>5, <1>6, <1>7, <1>8 DEF ByRenderer, Renderer

(* The steps of the main thread keep room for all messages there can be.     *)
LEMMA BudgetMain ==
  ASSUME Inv, Budget, Ample, "config" \notin WriterWork, ByMain
  PROVE  Budget'
<1>. USE BudgetFacts DEF Inv, Goto, Put, Take, Room, Shape, Bounded, Threads,
    Queues, bounds, Budget
<1>1. CASE MainTicks
  BY <1>1 DEF MainTicks, Block
<1>2. CASE MainPops
  BY <1>2 DEF MainPops, Block
<1>3. CASE MainHandled
  BY <1>3 DEF MainHandled, Block
<1>4. CASE MainDrained
  BY <1>4 DEF MainDrained, Block
<1>5. CASE MainNotifies
  BY <1>5 DEF MainNotifies, Block
<1>6. CASE MainJoinsRenderer
  BY <1>6 DEF MainJoinsRenderer, Block
<1>7. CASE MainJoinsWriter
  BY <1>7 DEF MainJoinsWriter, Block
<1>8. CASE MainAborts
  BY <1>8 DEF MainAborts, Block
<1>9. CASE MainSendsTermio
  <2>1. /\ sends > 0 /\ sends' = sends - 1 /\ UNCHANGED <<batches, emits>>
        /\ Put("termio") /\ push' = push /\ pc'["writer"] = pc["writer"]
    BY <1>9 DEF MainSendsTermio, Sending
  <2>2. len'["app"] = len["app"] /\ len'["termio"] = len["termio"] + 1
    BY <2>1
  <2>. QED
    BY <2>1, <2>2
<1>10. CASE MainSendsLocked
  <2>1. /\ sends > 0 /\ sends' = sends - 1 /\ UNCHANGED <<batches, emits>>
        /\ Put("termio") /\ push' = push /\ pc'["writer"] = pc["writer"]
    BY <1>10 DEF MainSendsLocked, Sending
  <2>2. len'["app"] = len["app"] /\ len'["termio"] = len["termio"] + 1
    BY <2>1
  <2>. QED
    BY <2>1, <2>2
<1>11. CASE MainSendsRend
  <2>1. /\ sends > 0 /\ sends' = sends - 1 /\ UNCHANGED <<batches, emits>>
        /\ len' = len \/ Put("rend")
        /\ push' = push \/ Block("main", "rend", "notify renderer", FALSE)
    BY <1>11 DEF MainSendsRend, Sending
  <2>2. len'["app"] = len["app"] /\ len'["termio"] = len["termio"]
    BY <2>1
  <2>3. Same("reader") /\ Same("writer") /\ Same("renderer")
    BY <1>11, MainSteps DEF ByMain, UserInput
  <2>4. push'["main"].queue \notin {"app", "termio"}
    <3>1. Block("main", "rend", "notify renderer", FALSE) =>
            push'["main"].queue = "rend"
      BY Blocks
    <3>. QED
      BY <2>1, <3>1
  <2>5. /\ \A t \in Threads : push'[t].queue \notin {"app", "termio"}
        /\ pc'["writer"] # "config"
    BY <2>3, <2>4 DEF Same
  <2>6. sends > 0 /\ sends' = sends - 1 /\ emits' = emits /\ batches' = batches
    BY <2>1
  <2>. QED
    BY <2>2, <2>5, <2>6
<1>12. CASE MainCloses
  BY <1>12 DEF MainCloses, Block
<1>. QED
  BY <1>1, <1>2, <1>3, <1>4, <1>5, <1>6, <1>7, <1>8, <1>9, <1>10, <1>11, <1>12
     DEF ByMain, Main, UserInput

(* The pushes that wait are for the renderer's mailbox, and take nothing     *)
(* from the room in the other two.                                           *)
LEMMA BudgetResumes ==
  ASSUME Inv, Budget, NEW t \in Threads, ResumePush(t) \/ Relock(t)
  PROVE  Budget'
<1>1. \A u \in Threads : pc[u] \in {"push", "relock"} =>
        u \in {"main", "writer"} /\ push[u].queue = "rend"
  BY DEF Inv, MainPlace, ReaderPlace, WriterPlace, RendererPlace, Budget,
     Threads
<1>2. /\ ResumePush(t) /\ pc[t] = "push" /\ push[t].queue = "rend"
      /\ t \in {"main", "writer"}
  BY <1>1 DEF Inv, MainPlace, WriterPlace, ResumePush, Relock
<1>3. len'["app"] = len["app"] /\ len'["termio"] = len["termio"]
  BY <1>2 DEF ResumePush, Put, Inv, Bounded, Queues
<1>4. \A u \in Threads : push'[u].queue \notin {"app", "termio"}
  BY <1>2 DEF ResumePush, Inv, Shape, Budget, NoPush
<1>5. pc'["writer"] # "config"
  BY <1>2 DEF ResumePush, Goto, Inv, Shape, WriterPlace, Budget, Threads
<1>6. UNCHANGED <<sends, emits, batches>>
  BY <1>2 DEF ResumePush, bounds
<1>. QED
  BY <1>3, <1>4, <1>5, <1>6 DEF Budget

(* There is room for every message still to be sent.                         *)
LEMMA BudgetHolds ==
  ASSUME Ample, "config" \notin WriterWork PROVE Spec => []Budget
<1>1. Init => Budget
  <2>. SUFFICES ASSUME Init PROVE Budget
    OBVIOUS
  <2>1. /\ len["app"] = 0 /\ len["termio"] = 0 /\ sends = MaxSends /\ emits = 0
        /\ batches = MaxBatches
    BY DEF Init, Queues
  <2>2. MaxSends \in Nat /\ MaxBatches * MaxEmits \in Nat
    BY ConstantsAssumption
  <2>. QED
    BY <2>1, <2>2 DEF Init, Budget, Total, NoPush, Threads
<1>2. ASSUME Inv, Budget, [Next]_vars PROVE Budget'
  <2>1. CASE ByReader \/ ByWriter \/ ByRenderer \/ ByMain
    BY <1>2, <2>1, BudgetReader, BudgetWriter, BudgetRenderer, BudgetMain
  <2>2. CASE \E t \in Threads : ResumePush(t) \/ Relock(t)
    BY <1>2, <2>2, BudgetResumes
  <2>3. CASE UNCHANGED vars
    BY <1>2, <2>3 DEF vars, Budget
  <2>. QED
    BY <1>2, <2>1, <2>2, <2>3, StepCases
<1>. QED
  BY <1>1, <1>2, InvHolds, PTL DEF Spec

(* Termio.zig:685 again, with nothing assumed of the behaviour: if the two   *)
(* mailboxes the stream handler sends to can hold all messages there are,    *)
(* every change of the terminal is read by the renderer or will be.          *)
THEOREM ChangesAreShownWithRoom ==
  ASSUME "writer" \notin Aborts, "config" \notin WriterWork, Ample
  PROVE  Spec => []ChangesWillBeShown
<1>1. Inv /\ Budget => pc["reader"] # "push"
  BY DEF Inv, ReaderPlace, Budget, Threads
<1>. QED
  BY <1>1, InvHolds, BudgetHolds, ChangesAreShown, PTL

===============================================================================
