------------------------- MODULE FramePresentProofs -------------------------
(***************************************************************************)
(* Two promises of the presentation path for any number of buffers, sizes  *)
(* and events: a hidden surface shows nothing, and the widget is left      *)
(* transparent only over a frame. Then the types of all its variables.     *)
(***************************************************************************)
EXTENDS FramePresent, TLAPS

\* Where the GUI thread is inside a drawing that a Show event waits for.
Nested == {"lock", "clear", "take", "takeImage"}
ShowIsOn == gpc = "show" \/ (gpc \in Nested /\ gret = "show")

\* NoGhost is not inductive: a later Show event reattaches the last frame, so it
\* must be known that the widget is not hidden by then, and Detach does nothing
\* without a presenter, so nothing may be shown without one.
GhostInv ==
    /\ NoGhost
    /\ ~presenter => shown = NoBuffer
    /\ gret \in {"idle", "show"}
    /\ ShowIsOn \/ gpc = "attach" => ~hidden

\* What the drains have in common.
LEMMA DrainKeeps ==
    ASSUME GhostInv, Drain
    PROVE  /\ hidden' = hidden /\ gret' \in {"idle", "show"}
           /\ presenter' = presenter
           /\ \/ gpc = "idle" /\ gpc' = "take" /\ gret' = "idle"
              \/ gpc = "clear" /\ gpc' = "take" /\ gret' = gret
              \/ gpc = "take" /\ gpc' = gret /\ gret' = gret
           /\ \/ shown' = shown
              \/ ~hidden /\ presenter
  <1>1. CASE DrainBegins
    BY <1>1 DEF DrainBegins, GhostInv, widget, surfaceOf, compositor
  <1>2. CASE DrainHidden
    BY <1>2 DEF DrainHidden, DrainRest, GhostInv, surfaceOf, compositor
  <1>3. CASE DrainImage
    BY <1>3 DEF DrainImage, DrainRest, GhostInv, surfaceOf, compositor
  <1>4. CASE DrainNothing
    BY <1>4 DEF DrainNothing, DrainRest, GhostInv, surfaceOf, compositor
  <1>5. CASE DrainFrame
    <2>1. gpc = "take" /\ gpc' = gret /\ UNCHANGED <<hidden, gret>>
      BY <1>5 DEF DrainFrame, DrainRest
    <2>2. presenter' = presenter
      BY <1>5, Zenon DEF DrainFrame, RefuseDmabuf, ImportFailed, surfaceOf
    <2>3. ~hidden /\ presenter
      BY <1>5, Zenon DEF DrainFrame
    <2> QED BY <2>1, <2>2, <2>3 DEF GhostInv
  <1> QED BY <1>1, <1>2, <1>3, <1>4, <1>5 DEF Drain

\* The renderer thread and the compositor touch none of the variables GhostInv
\* reads, but that the compositor's events leave them as they are.
ghostly == <<hidden, presenter, shown, gpc, gret>>

LEMMA RendererAside == ASSUME Renderer PROVE UNCHANGED <<ghostly, hasFrame, moved>>
  <1> USE DEF ghostly, widget, surfaceOf, compositor, guiAt, CoreUnchanged
  <1>1. CASE Draw BY <1>1 DEF Draw
  <1>2. CASE ChoosePath BY <1>2 DEF ChoosePath
  <1>3. CASE HiddenReturns BY <1>3 DEF HiddenReturns
  <1>4. CASE PresentImage BY <1>4 DEF PresentImage
  <1>5. CASE EnterWait BY <1>5 DEF EnterWait
  <1>6. CASE ClaimToken BY <1>6 DEF ClaimToken
  <1>7. CASE HiddenWhileWaiting BY <1>7 DEF HiddenWhileWaiting
  <1>8. CASE DupFailed BY <1>8 DEF DupFailed
  <1>9. CASE Park BY <1>9 DEF Park
  <1>10. CASE ScheduleDrain BY <1>10 DEF ScheduleDrain
  <1>11. CASE LeaveGate BY <1>11 DEF LeaveGate
  <1>12. CASE Occlusion
    <2>1. UNCHANGED <<widget, surfaceOf, compositor, guiAt, moved>>
      BY <1>12, Zenon DEF Occlusion
    <2> QED BY <2>1
  <1>13. CASE \E changed \in BOOLEAN : UpdateFrame(changed) BY <1>13 DEF UpdateFrame
  <1> QED
    BY <1>1, <1>2, <1>3, <1>4, <1>5, <1>6, <1>7, <1>8, <1>9, <1>10, <1>11, <1>12, <1>13
    DEF Renderer, RendererPresents

LEMMA CompositorAside == ASSUME Compositor PROVE UNCHANGED <<ghostly, hasFrame, moved>>
  <1> USE DEF ghostly, widget, surfaceOf, compositor, guiAt
  <1>1. CASE \E b \in Buffers : CompositorRelease(b) BY <1>1 DEF CompositorRelease
  <1>2. CASE CompositorFrame BY <1>2 DEF CompositorFrame
  <1> QED BY <1>1, <1>2 DEF Compositor

LEMMA GhostStep == ASSUME GhostInv, [Next]_vars PROVE GhostInv'
  <1> USE DEF ghostly
  <1>0. ASSUME UNCHANGED ghostly PROVE GhostInv'
    BY <1>0 DEF GhostInv, NoGhost, ShowIsOn, Nested
  <1>1. CASE UNCHANGED vars
    BY <1>0, <1>1 DEF vars, widget, surfaceOf, compositor, guiAt
  <1>2. CASE Renderer \/ Compositor
    BY <1>0, <1>2, RendererAside, CompositorAside
  <1>3. CASE FrameReady \/ \E b \in Buffers : BufferReleased(b)
    <2>1. UNCHANGED ghostly
      BY <1>3 DEF FrameReady, BufferReleased, widget, compositor, guiAt
    <2> QED BY <1>0, <2>1
  <1>4. CASE Drain
    <2>1. ShowIsOn' => ShowIsOn
      BY <1>4, DrainKeeps DEF ShowIsOn, Nested
    <2>2. gpc' # "attach" /\ (hidden' => gpc' \notin {"hide", "exit3"})
      BY <1>4, DrainKeeps DEF GhostInv
    <2>3. hidden' => shown' = NoBuffer
      <3>1. ~hidden => ~hidden'
        BY <1>4, DrainKeeps, Zenon
      <3>2. hidden => shown = NoBuffer
        <4>1. gpc \in {"idle", "clear", "take"}
          BY <1>4, DrainKeeps
        <4>2. gpc \notin {"hide", "exit3"}
          BY <4>1
        <4> QED BY <4>2, Zenon DEF GhostInv, NoGhost
      <3>3. shown' = shown \/ ~hidden
        BY <1>4, DrainKeeps, Zenon
      <3> QED BY <3>1, <3>2, <3>3
    <2> QED BY <1>4, <2>1, <2>2, <2>3, DrainKeeps DEF GhostInv, NoGhost
  <1>5. CASE Inline
    <2>1. CASE InlineDraw
      <3>1. UNCHANGED <<hidden, presenter, shown, gret>> /\ gpc = "lock"
            /\ gpc' \in {"clear", "takeImage"}
        BY <2>1 DEF InlineDraw, widget, surfaceOf, compositor
      <3> QED BY <3>1 DEF GhostInv, NoGhost, ShowIsOn, Nested
    <2>2. CASE InlineDrawImage
      <3>1. UNCHANGED <<hidden, presenter, shown, gret>> /\ gpc = "takeImage" /\ gpc' = gret
        BY <2>2 DEF InlineDrawImage, widget, surfaceOf, compositor
      <3> QED BY <3>1 DEF GhostInv, NoGhost, ShowIsOn, Nested
    <2> QED BY <1>5, <2>1, <2>2 DEF Inline
  <1>6. CASE Hide
    BY <1>6 DEF Hide, GhostInv, NoGhost, ShowIsOn, Nested, surfaceOf, compositor
  <1>7. CASE HideFinish
    BY <1>7 DEF HideFinish, Detach, Commit, GhostInv, NoGhost, ShowIsOn, Nested,
                surfaceOf, compositor
  <1>8. CASE DetachFromTopLevel
    BY <1>8 DEF DetachFromTopLevel, Detach, Commit, GhostInv, NoGhost, ShowIsOn, Nested,
                surfaceOf, compositor, guiAt
  <1>9. CASE PlatformDestroyed
    BY <1>9
    DEF PlatformDestroyed, DestroyPresenter, Commit, GhostInv, NoGhost, ShowIsOn,
                Nested, guiAt
  <1>10. ASSUME NEW s \in Sizes, Resize(s) PROVE GhostInv'
    <2>1. UNCHANGED <<hidden, presenter, shown>> /\ gpc = "idle" /\ gret' = "idle"
          /\ gpc' \in {"lock", "idle"}
      BY <1>10 DEF Resize, AfterResize, surfaceOf, compositor
    <2> QED BY <2>1 DEF GhostInv, NoGhost, ShowIsOn, Nested
  <1>11. ASSUME NEW s \in Sizes, Show(s) PROVE GhostInv'
    <2>1. UNCHANGED <<presenter, shown>> /\ ~hidden' /\ gret' \in {gret, "show"}
      BY <1>11 DEF Show, AfterResize, surfaceOf, compositor
    <2> QED BY <2>1 DEF GhostInv, NoGhost, ShowIsOn, Nested
  <1>12. CASE ShowTopLevel
    BY <1>12 DEF ShowTopLevel, DestroyPresenter, Commit, GhostInv, NoGhost, ShowIsOn,
                 Nested, surfaceOf, compositor
  <1>13. CASE ShowReattach
    BY <1>13 DEF ShowReattach, Commit, GhostInv, NoGhost, ShowIsOn, Nested
  <1>14. CASE ShowCreate
    BY <1>14 DEF ShowCreate, GhostInv, NoGhost, ShowIsOn, Nested, compositor
  <1>15. CASE ExitCloseParked
    BY <1>15
    DEF ExitCloseParked, GhostInv, NoGhost, ShowIsOn, Nested, widget, surfaceOf,
                 compositor
  <1>16. CASE Exit
    BY <1>16
    DEF Exit, ExitWake, ExitJoined, DestroyPresenter, Commit, GhostInv, NoGhost,
                 ShowIsOn, Nested, surfaceOf, compositor
  <1> QED
    BY <1>1, <1>2, <1>3, <1>4, <1>5, <1>6, <1>7, <1>8, <1>9, <1>10, <1>11, <1>12, <1>13,
       <1>14, <1>15, <1>16
    DEF Next, Gui, Showing

LEMMA GhostInit == ASSUME Init PROVE GhostInv
  BY DEF Init, GhostInv, NoGhost, ShowIsOn, Nested

\* A hidden surface shows nothing, for any number of buffers, sizes and events.
THEOREM NoGhostEver == Init_Next => []NoGhost
  <1>1. GhostInv => NoGhost BY DEF GhostInv
  <1> QED BY <1>1, GhostInit, GhostStep, PTL DEF Init_Next

-----------------------------------------------------------------------------
(* The widget is transparent only over a frame.                            *)

\* Once detached for another top-level, the presenter holds no frame although
\* m_subsurfaceHasFrame may still say so; the next Show event resets both before
\* the surface is painted.
HoleInv ==
    /\ hasFrame /\ shown = NoBuffer => moved \/ gpc = "gone"
    /\ moved /\ ~hidden => ShowIsOn
    /\ ~presenter /\ hasFrame => gpc = "gone"

LEMMA DrainShows ==
    ASSUME Accepted, Drain
    PROVE  /\ \/ UNCHANGED <<hasFrame, shown>>
              \/ hasFrame' /\ shown' # NoBuffer /\ presenter
           /\ moved' = moved
  <1>1. CASE DrainBegins
    BY <1>1 DEF DrainBegins, widget, compositor
  <1>2. CASE DrainHidden
    BY <1>2 DEF DrainHidden, DrainRest, compositor
  <1>3. CASE DrainImage
    BY <1>3 DEF DrainImage, DrainRest, compositor
  <1>4. CASE DrainNothing
    BY <1>4 DEF DrainNothing, DrainRest, compositor
  <1>5. CASE DrainFrame
    <2>1. moved' = moved /\ presenter /\ parked # NoBuffer
      BY <1>5, Zenon DEF DrainFrame, DrainRest
    <2>2. \/ UNCHANGED <<hasFrame, surfaceOf, compositor>>
          \/ hasFrame' = TRUE /\ PresentDmabuf(parked)
      BY <1>5, Zenon DEF DrainFrame, ImportFailed, Accepted
    <2>3. PresentDmabuf(parked) => shown' = parked
      BY DEF PresentDmabuf, Commit
    <2> QED BY <2>1, <2>2, <2>3 DEF compositor
  <1> QED BY <1>1, <1>2, <1>3, <1>4, <1>5 DEF Drain

LEMMA HoleStep == ASSUME Accepted, GhostInv, HoleInv, [Next]_vars PROVE HoleInv'
  <1> USE DEF ghostly
  <1>0. ASSUME UNCHANGED <<ghostly, hasFrame, moved>> PROVE HoleInv'
    BY <1>0 DEF HoleInv, ShowIsOn, Nested
  <1>1. CASE UNCHANGED vars
    BY <1>0, <1>1 DEF vars, widget, surfaceOf, compositor, guiAt
  <1>2. CASE Renderer \/ Compositor
    BY <1>0, <1>2, RendererAside, CompositorAside
  <1>3. CASE FrameReady \/ \E b \in Buffers : BufferReleased(b)
    <2>1. UNCHANGED <<ghostly, hasFrame, moved>>
      BY <1>3 DEF FrameReady, BufferReleased, widget, compositor, guiAt
    <2> QED BY <1>0, <2>1
  <1>4. CASE Drain
    <2>1. ShowIsOn => ShowIsOn'
      BY <1>4, DrainKeeps DEF ShowIsOn, Nested
    <2>2. gpc # "gone"
      BY <1>4, DrainKeeps
    <2>3. UNCHANGED <<hidden, presenter, moved>>
      BY <1>4, DrainKeeps, DrainShows, Zenon
    <2>4. moved' /\ ~hidden' => ShowIsOn'
      BY <2>1, <2>3, Zenon DEF HoleInv
    <2>5. CASE UNCHANGED <<hasFrame, shown>>
      BY <2>2, <2>3, <2>4, <2>5, Zenon DEF HoleInv
    <2>6. CASE hasFrame' /\ shown' # NoBuffer /\ presenter
      BY <2>2, <2>3, <2>4, <2>6, Zenon DEF HoleInv
    <2> QED BY <1>4, <2>5, <2>6, DrainShows, Zenon
  <1>5. CASE Inline
    <2>1. UNCHANGED <<hidden, presenter, shown, gret, hasFrame, moved>>
      BY <1>5 DEF Inline, InlineDraw, InlineDrawImage, widget, surfaceOf, compositor
    <2>2. ShowIsOn => ShowIsOn'
      BY <1>5 DEF Inline, InlineDraw, InlineDrawImage, ShowIsOn, Nested, surfaceOf
    <2>3. gpc # "gone"
      BY <1>5 DEF Inline, InlineDraw, InlineDrawImage
    <2> QED BY <2>1, <2>2, <2>3 DEF HoleInv
  <1>6. CASE Hide
    BY <1>6 DEF Hide, HoleInv, ShowIsOn, Nested, surfaceOf, compositor
  <1>7. CASE HideFinish
    <2>1. ~hasFrame' /\ UNCHANGED <<hidden, moved>>
      BY <1>7 DEF HideFinish
    <2>2. ~ShowIsOn
      BY <1>7 DEF HideFinish, ShowIsOn, Nested
    <2> QED BY <2>1, <2>2 DEF HoleInv
  <1>8. CASE DetachFromTopLevel
    BY <1>8 DEF DetachFromTopLevel, HoleInv, surfaceOf
  <1>9. CASE PlatformDestroyed
    <2>1. ~hasFrame' /\ UNCHANGED <<hidden, moved, gpc, gret>>
      BY <1>9 DEF PlatformDestroyed, guiAt
    <2> QED BY <2>1 DEF HoleInv, ShowIsOn
  <1>10. ASSUME NEW s \in Sizes, Resize(s) PROVE HoleInv'
    <2>1. UNCHANGED <<hidden, presenter, shown, hasFrame, moved>> /\ gpc = "idle"
      BY <1>10 DEF Resize, surfaceOf, compositor
    <2> QED BY <2>1 DEF HoleInv, ShowIsOn, Nested
  <1>11. ASSUME NEW s \in Sizes, Show(s) PROVE HoleInv'
    <2>1. UNCHANGED <<presenter, shown, hasFrame, moved>> /\ gpc = "idle"
      BY <1>11 DEF Show, surfaceOf, compositor
    <2>2. ShowIsOn'
      BY <1>11 DEF Show, AfterResize, ShowIsOn, Nested
    <2> QED BY <2>1, <2>2 DEF HoleInv
  <1>12. CASE ShowTopLevel
    <2>1. ~moved' /\ gpc = "show" /\ UNCHANGED hidden
      BY <1>12 DEF ShowTopLevel
    <2>2. \/ ~hasFrame'
          \/ ~(moved /\ presenter) /\ UNCHANGED <<hasFrame, presenter, shown>>
      BY <1>12, Zenon DEF ShowTopLevel, surfaceOf, compositor
    <2> QED BY <2>1, <2>2 DEF HoleInv
  <1>13. CASE ShowReattach
    <2>1. UNCHANGED <<hidden, presenter, moved>> /\ presenter /\ gpc = "attach"
      BY <1>13 DEF ShowReattach
    <2>2. shown' # NoBuffer \/ UNCHANGED <<hasFrame, shown>>
      BY <1>13 DEF ShowReattach, Commit
    <2>3. ~ShowIsOn
      BY <2>1 DEF ShowIsOn, Nested
    <2> QED BY <2>1, <2>2, <2>3 DEF HoleInv
  <1>14. CASE ShowCreate
    <2>1. /\ UNCHANGED <<hidden, hasFrame, shown, moved>> /\ gpc = "attach"
          /\ presenter' \/ presenter' = presenter
      BY <1>14 DEF ShowCreate, compositor
    <2>2. ~ShowIsOn
      BY <2>1 DEF ShowIsOn, Nested
    <2> QED BY <2>1, <2>2 DEF HoleInv
  <1>15. CASE ExitCloseParked
    BY <1>15
    DEF ExitCloseParked, HoleInv, ShowIsOn, Nested, widget, surfaceOf, compositor
  <1>16. CASE ExitWake
    BY <1>16 DEF ExitWake, HoleInv, surfaceOf, compositor
  <1>17. CASE ExitJoined
    <2>1. UNCHANGED <<hidden, moved>> /\ gpc = "exit3" /\ gpc' = "gone"
      BY <1>17 DEF ExitJoined
    <2>2. ~ShowIsOn
      BY <2>1 DEF ShowIsOn, Nested
    <2> QED BY <2>1, <2>2 DEF HoleInv
  <1> QED
    BY <1>1, <1>2, <1>3, <1>4, <1>5, <1>6, <1>7, <1>8, <1>9, <1>10, <1>11, <1>12, <1>13,
       <1>14, <1>15, <1>16, <1>17
    DEF Next, Gui, Showing, Exit

LEMMA HoleInit == ASSUME Init PROVE HoleInv
  BY DEF Init, HoleInv

\* If the compositor takes the frames' format and no import fails, paintEvent never
\* leaves the terminal's area transparent over nothing.
THEOREM NoHoleEver == Accepted /\ Init_Next => []NoHole
  <1>1. HoleInv => NoHole
    BY DEF HoleInv, NoHole, ShowIsOn, Nested
  <1> SUFFICES ASSUME Accepted PROVE Init_Next => []NoHole
    BY DEF NoHole
  <1>2. GhostInv /\ HoleInv /\ [Next]_vars => GhostInv' /\ HoleInv'
    BY GhostStep, HoleStep
  <1> QED BY <1>1, <1>2, GhostInit, HoleInit, PTL DEF Init_Next


\* The type invariant in parts, each kept with the help of the others: an
\* invariant, because the frame parked is a real buffer only if the slots are
\* typed, and those only if the renderer is where it says.
Flags ==
    /\ hidden \in BOOLEAN /\ useSubsurface \in BOOLEAN /\ ready \in BOOLEAN
    /\ drainScheduled \in BOOLEAN /\ hasFrame \in BOOLEAN
    /\ imagePending \in BOOLEAN /\ image \in BOOLEAN /\ presenter \in BOOLEAN
    /\ visible \in BOOLEAN /\ rebuilt \in BOOLEAN /\ chain \in BOOLEAN
    /\ moved \in BOOLEAN

Counts ==
    /\ inFlight \in 0..MaxInFlight /\ posted \in Nat /\ cells \in 0..MaxCells
    /\ hides \in 0..MaxHides /\ moves \in 0..MaxMoves
    /\ teardowns \in 0..MaxTeardowns /\ resizes \in 0..MaxResizes

Proxies ==
    /\ parked \in Buffers \cup {NoBuffer, Blank}
    /\ cache \subseteq Buffers /\ retired \subseteq Buffers /\ releases \subseteq Buffers
    /\ last \in Buffers \cup {NoBuffer} /\ awaiting \in Buffers \cup {NoBuffer}
    /\ shown \in Buffers \cup {NoBuffer}
    /\ callback \in {"none", "armed", "done"}

\* Between drawing a frame and returning from its presentation.
Presenting == {"present", "checkPark", "checkImage", "wait1", "park", "schedule", "wait2"}

Targets ==
    /\ size \in Sizes /\ screen \in Sizes
    /\ slots \in [Slots -> Buffers \cup {NoBuffer}] /\ index \in Slots
    /\ lastTarget \in Slots \cup {NoSlot} /\ rframe \in Slots \cup {NoSlot}
    /\ rpc \in Presenting => rframe \in Slots
    /\ made \in 0..MaxBuffers /\ sizeOf \in [Buffers -> Sizes]
    /\ pix \in [Buffers -> 0..MaxCells]

Places ==
    /\ rpc \in {"idle", "woken", "draw"} \cup Presenting
    /\ lock \in {"free", "renderer"}
    /\ gpc \in {"idle", "clear", "take", "lock", "takeImage", "hide", "show",
                "attach", "exit2", "exit3", "gone"}
    /\ gret \in {"idle", "show"}


\* No widget has the size of a target that was never drawn to.
Reserved == "1x1" \notin Sizes

Types == Flags /\ Counts /\ Proxies /\ Targets /\ Places /\ mail \in Seq(BOOLEAN)

\* What taking a message from the mailbox leaves, and what adding one makes.
LEMMA TailOfMail ==
    ASSUME NEW m \in Seq(BOOLEAN), m # <<>>
    PROVE  Tail(m) \in Seq(BOOLEAN) /\ Head(m) \in BOOLEAN
  OBVIOUS

LEMMA MoreMail ==
    ASSUME NEW m \in Seq(BOOLEAN), NEW v \in BOOLEAN
    PROVE  Append(m, v) \in Seq(BOOLEAN)
  OBVIOUS

\* The next slot of the swap chain is one of its slots.
LEMMA NextSlotIn ==
    ASSUME index \in Slots
    PROVE  NextSlot \in Slots
  <1>1. \A n \in Nat, d \in Nat \ {0} : n % d \in 0..(d - 1)
    BY Z3
  <1> QED BY <1>1, ConstantsOK DEF NextSlot, Slots

\* Redraw leaves every slot, buffer and size typed, whoever draws.
LEMMA RedrawTargets ==
    ASSUME Redraw, Proxies, Counts, Targets
    PROVE  /\ screen' \in Sizes /\ index' \in Slots /\ made' \in 0..MaxBuffers
           /\ slots' \in [Slots -> Buffers \cup {NoBuffer}]
           /\ slots'[NextSlot] \in Buffers
           /\ sizeOf' \in [Buffers -> Sizes] /\ pix' \in [Buffers -> 0..MaxCells]
  <1> DEFINE s == NextSlot
             resized == SizeOf(slots[s]) # size
             b == IF resized THEN made + 1 ELSE slots[s]
  <1>1. /\ b \in Buffers
        /\ made' = IF resized THEN b ELSE made
        /\ slots' = [slots EXCEPT ![s] = b]
        /\ sizeOf' = [sizeOf EXCEPT ![b] = size]
        /\ pix' = [pix EXCEPT ![b] = cells]
        /\ index' = s /\ screen' = size
    BY DEF Redraw
  <1>2. s \in Slots BY NextSlotIn DEF Targets
  <1> HIDE DEF s, b, resized
  <1>3. size \in Sizes /\ cells \in 0..MaxCells /\ made \in 0..MaxBuffers
    BY DEF Targets, Counts
  <1>4. made' \in 0..MaxBuffers
    BY <1>1, <1>3 DEF Buffers
  <1>5. slots' \in [Slots -> Buffers \cup {NoBuffer}] /\ slots'[s] = b
    BY <1>1, <1>2 DEF Targets
  <1>6. sizeOf' \in [Buffers -> Sizes] /\ pix' \in [Buffers -> 0..MaxCells]
    BY <1>1, <1>3 DEF Targets
  <1> QED BY <1>1, <1>2, <1>3, <1>4, <1>5, <1>6 DEF s

\* A frame of some widget's size is no blank one.
LEMMA RealSize ==
    ASSUME Reserved, NEW b, SizeOf(b) \in Sizes
    PROVE  b \in Buffers
  BY DEF SizeOf, Reserved

\* SubsurfacePresenter::presentDmabuf keeps the types of its state.
LEMMA PresentTypes ==
    ASSUME Proxies, Counts, NEW b \in Buffers, PresentDmabuf(b)
    PROVE  /\ cache' \subseteq Buffers /\ retired' \subseteq Buffers
           /\ releases' \subseteq Buffers
           /\ last' \in Buffers \cup {NoBuffer} /\ awaiting' \in Buffers \cup {NoBuffer}
           /\ shown' \in Buffers \cup {NoBuffer}
           /\ callback' \in {"none", "armed", "done"}
           /\ inFlight' \in 0..MaxInFlight
  <1>1. /\ cache' \subseteq Buffers /\ retired' \subseteq Buffers
        /\ shown' \in Buffers \cup {NoBuffer}
        /\ last' \in Buffers \cup {NoBuffer} /\ awaiting' \in Buffers \cup {NoBuffer}
    BY DEF Proxies, PresentDmabuf, Commit
  <1>2. releases' \subseteq Buffers
    BY DEF Proxies, PresentDmabuf
  <1>3. callback' \in {"none", "armed", "done"}
    BY DEF Proxies, PresentDmabuf, ArmCallback
  <1>4. inFlight' \in {inFlight, Decremented(inFlight)}
    BY DEF PresentDmabuf
  <1>5. inFlight' \in 0..MaxInFlight
    BY <1>4, ConstantsOK DEF Counts, Decremented
  <1> QED BY <1>1, <1>2, <1>3, <1>5

\* The program counters and the lock.
LEMMA PlacesKept ==
    ASSUME Places, [Next]_vars
    PROVE  Places'
  <1> USE DEF Places, Presenting, widget, gate, parking, images, surfaceOf, compositor,
          occlusion, drawing, guiAt, rendererAt, bounds
  <1>1. CASE Draw BY <1>1 DEF Draw
  <1>2. CASE ChoosePath BY <1>2 DEF ChoosePath, CoreUnchanged
  <1>3. CASE HiddenReturns BY <1>3 DEF HiddenReturns, Presented, CoreUnchanged
  <1>4. CASE PresentImage BY <1>4 DEF PresentImage, Presented, CoreUnchanged, Schedule
  <1>5. CASE EnterWait BY <1>5 DEF EnterWait, CoreUnchanged
  <1>6. CASE ClaimToken BY <1>6 DEF ClaimToken, CoreUnchanged
  <1>7. CASE HiddenWhileWaiting BY <1>7 DEF HiddenWhileWaiting, Presented, CoreUnchanged
  <1>8. CASE DupFailed BY <1>8 DEF DupFailed, Presented, CoreUnchanged
  <1>9. CASE Park BY <1>9 DEF Park, CoreUnchanged
  <1>10. CASE ScheduleDrain BY <1>10 DEF ScheduleDrain, CoreUnchanged, Schedule
  <1>11. CASE LeaveGate BY <1>11 DEF LeaveGate, Presented, CoreUnchanged
  <1>12. CASE Occlusion BY <1>12 DEF Occlusion
  <1>13. CASE FrameReady BY <1>13 DEF FrameReady, RendererUnchanged
  <1>14. CASE DrainBegins BY <1>14 DEF DrainBegins, RendererUnchanged
  <1>15. CASE DrainHidden BY <1>15 DEF DrainHidden, RendererUnchanged, DrainRest
  <1>16. CASE DrainImage BY <1>16 DEF DrainImage, RendererUnchanged, DrainRest
  <1>17. CASE DrainNothing BY <1>17 DEF DrainNothing, RendererUnchanged, DrainRest
  <1>18. CASE DrainFrame BY <1>18 DEF DrainFrame, RendererUnchanged, DrainRest
  <1>19. CASE InlineDraw BY <1>19 DEF InlineDraw, Schedule
  <1>20. CASE InlineDrawImage BY <1>20 DEF InlineDrawImage, RendererUnchanged
  <1>21. CASE Hide BY <1>21 DEF Hide, RendererUnchanged
  <1>22. CASE HideFinish BY <1>22 DEF HideFinish
  <1>23. CASE DetachFromTopLevel BY <1>23 DEF DetachFromTopLevel, RendererUnchanged
  <1>24. CASE PlatformDestroyed BY <1>24 DEF PlatformDestroyed, RendererUnchanged
  <1>25. CASE ShowTopLevel BY <1>25 DEF ShowTopLevel, RendererUnchanged
  <1>26. CASE ShowReattach BY <1>26 DEF ShowReattach, RendererUnchanged
  <1>27. CASE ShowCreate BY <1>27 DEF ShowCreate, RendererUnchanged
  <1>28. CASE ExitCloseParked BY <1>28 DEF ExitCloseParked, RendererUnchanged
  <1>29. CASE ExitWake BY <1>29 DEF ExitWake, RendererUnchanged
  <1>30. CASE ExitJoined BY <1>30 DEF ExitJoined, RendererUnchanged
  <1>31. CASE CompositorFrame BY <1>31 DEF CompositorFrame, RendererUnchanged
  <1>32. ASSUME NEW changed \in BOOLEAN, UpdateFrame(changed) PROVE Places'
    BY <1>32 DEF UpdateFrame
  <1>33. ASSUME NEW b \in Buffers, BufferReleased(b) PROVE Places'
    BY <1>33 DEF BufferReleased, RendererUnchanged
  <1>34. ASSUME NEW s \in Sizes, Resize(s) PROVE Places'
    BY <1>34 DEF Resize, RendererUnchanged, AfterResize
  <1>35. ASSUME NEW s \in Sizes, Show(s) PROVE Places'
    BY <1>35 DEF Show, AfterResize
  <1>36. ASSUME NEW b \in Buffers, CompositorRelease(b) PROVE Places'
    BY <1>36 DEF CompositorRelease, RendererUnchanged
  <1>37. CASE UNCHANGED vars BY <1>37 DEF vars
  <1> QED
    BY <1>1, <1>2, <1>3, <1>4, <1>5, <1>6, <1>7, <1>8, <1>9, <1>10, <1>11, <1>12, <1>13,
       <1>14, <1>15, <1>16, <1>17, <1>18, <1>19, <1>20, <1>21, <1>22, <1>23, <1>24,
       <1>25, <1>26, <1>27, <1>28, <1>29, <1>30, <1>31, <1>32, <1>33, <1>34, <1>35,
       <1>36, <1>37
    DEF Next, Renderer, RendererPresents, Gui, Compositor, Drain, Inline, Showing, Exit

\* The Boolean members.
LEMMA FlagsKept ==
    ASSUME Flags, mail \in Seq(BOOLEAN), [Next]_vars
    PROVE  Flags'
  <1> USE DEF Flags, widget, gate, parking, images, surfaceOf, compositor, occlusion,
          drawing, guiAt, rendererAt, bounds
  <1>1. CASE Draw
    <2>1. chain' \in BOOLEAN /\ rebuilt' \in BOOLEAN
      BY <1>1, Zenon DEF Draw, Redraw
    <2>2. UNCHANGED <<hidden, useSubsurface, hasFrame, ready, drainScheduled, imagePending,
                      image, presenter, visible, moved>>
      BY <1>1 DEF Draw
    <2> QED BY <2>1, <2>2
  <1>2. CASE ChoosePath BY <1>2 DEF ChoosePath, CoreUnchanged
  <1>3. CASE HiddenReturns BY <1>3 DEF HiddenReturns, Presented, CoreUnchanged
  <1>4. CASE PresentImage BY <1>4 DEF PresentImage, Presented, CoreUnchanged, Schedule
  <1>5. CASE EnterWait BY <1>5 DEF EnterWait, CoreUnchanged
  <1>6. CASE ClaimToken BY <1>6 DEF ClaimToken, CoreUnchanged
  <1>7. CASE HiddenWhileWaiting BY <1>7 DEF HiddenWhileWaiting, Presented, CoreUnchanged
  <1>8. CASE DupFailed BY <1>8 DEF DupFailed, Presented, CoreUnchanged
  <1>9. CASE Park BY <1>9 DEF Park, CoreUnchanged
  <1>10. CASE ScheduleDrain BY <1>10 DEF ScheduleDrain, CoreUnchanged, Schedule
  <1>11. CASE LeaveGate BY <1>11 DEF LeaveGate, Presented, CoreUnchanged
  <1>12. CASE Occlusion
    <2>1. visible' \in BOOLEAN
      BY <1>12, TailOfMail DEF Occlusion
    <2>2. chain' \in {FALSE, chain}
      BY <1>12, Zenon DEF Occlusion
    <2>3. UNCHANGED <<hidden, useSubsurface, hasFrame, ready, drainScheduled, imagePending,
                      image, presenter, rebuilt, moved>>
      BY <1>12, Zenon DEF Occlusion
    <2> QED BY <2>1, <2>2, <2>3
  <1>13. CASE FrameReady BY <1>13 DEF FrameReady, RendererUnchanged
  <1>14. CASE DrainBegins BY <1>14 DEF DrainBegins, RendererUnchanged
  <1>15. CASE DrainHidden BY <1>15 DEF DrainHidden, RendererUnchanged, DrainRest
  <1>16. CASE DrainImage BY <1>16 DEF DrainImage, RendererUnchanged, DrainRest
  <1>17. CASE DrainNothing BY <1>17 DEF DrainNothing, RendererUnchanged, DrainRest
  <1>18. CASE DrainFrame
    <2>1. hasFrame' \in {TRUE, hasFrame} /\ presenter' = presenter
      BY <1>18, Zenon DEF DrainFrame, RefuseDmabuf, ImportFailed
    <2> QED BY <1>18, <2>1 DEF DrainFrame, RendererUnchanged, DrainRest
  <1>19. CASE InlineDraw BY <1>19 DEF InlineDraw, Redraw, Schedule
  <1>20. CASE InlineDrawImage BY <1>20 DEF InlineDrawImage, RendererUnchanged
  <1>21. CASE Hide BY <1>21 DEF Hide, RendererUnchanged
  <1>22. CASE HideFinish BY <1>22 DEF HideFinish, Detach, Tell, Told
  <1>23. CASE DetachFromTopLevel
    BY <1>23 DEF DetachFromTopLevel, RendererUnchanged, Detach
  <1>24. CASE PlatformDestroyed
    BY <1>24 DEF PlatformDestroyed, RendererUnchanged, DestroyPresenter
  <1>25. CASE ShowTopLevel
    BY <1>25 DEF ShowTopLevel, RendererUnchanged, DestroyPresenter
  <1>26. CASE ShowReattach BY <1>26 DEF ShowReattach, RendererUnchanged, ArmCallback
  <1>27. CASE ShowCreate BY <1>27 DEF ShowCreate, RendererUnchanged
  <1>28. CASE ExitCloseParked BY <1>28 DEF ExitCloseParked, RendererUnchanged
  <1>29. CASE ExitWake BY <1>29 DEF ExitWake, RendererUnchanged
  <1>30. CASE ExitJoined BY <1>30 DEF ExitJoined, RendererUnchanged, DestroyPresenter
  <1>31. CASE CompositorFrame BY <1>31 DEF CompositorFrame, RendererUnchanged
  <1>32. ASSUME NEW changed \in BOOLEAN, UpdateFrame(changed) PROVE Flags'
    BY <1>32 DEF UpdateFrame
  <1>33. ASSUME NEW b \in Buffers, BufferReleased(b) PROVE Flags'
    BY <1>33 DEF BufferReleased, RendererUnchanged
  <1>34. ASSUME NEW s \in Sizes, Resize(s) PROVE Flags'
    BY <1>34 DEF Resize, RendererUnchanged, AfterResize
  <1>35. ASSUME NEW s \in Sizes, Show(s) PROVE Flags'
    BY <1>35 DEF Show, AfterResize, Tell, Told
  <1>36. ASSUME NEW b \in Buffers, CompositorRelease(b) PROVE Flags'
    BY <1>36 DEF CompositorRelease, RendererUnchanged
  <1>37. CASE UNCHANGED vars BY <1>37 DEF vars
  <1> QED
    BY <1>1, <1>2, <1>3, <1>4, <1>5, <1>6, <1>7, <1>8, <1>9, <1>10, <1>11, <1>12, <1>13,
       <1>14, <1>15, <1>16, <1>17, <1>18, <1>19, <1>20, <1>21, <1>22, <1>23, <1>24,
       <1>25, <1>26, <1>27, <1>28, <1>29, <1>30, <1>31, <1>32, <1>33, <1>34, <1>35,
       <1>36, <1>37
    DEF Next, Renderer, RendererPresents, Gui, Compositor, Drain, Inline, Showing, Exit

\* The mailbox of occlusion messages holds Booleans.
LEMMA MailKept ==
    ASSUME mail \in Seq(BOOLEAN), Flags, [Next]_vars
    PROVE  mail' \in Seq(BOOLEAN)
  <1> USE DEF widget, gate, parking, images, surfaceOf, compositor, occlusion, drawing,
          guiAt, rendererAt, bounds
  <1>1. CASE Draw BY <1>1 DEF Draw
  <1>2. CASE ChoosePath BY <1>2 DEF ChoosePath, CoreUnchanged
  <1>3. CASE HiddenReturns BY <1>3 DEF HiddenReturns, Presented, CoreUnchanged
  <1>4. CASE PresentImage BY <1>4 DEF PresentImage, Presented, CoreUnchanged, Schedule
  <1>5. CASE EnterWait BY <1>5 DEF EnterWait, CoreUnchanged
  <1>6. CASE ClaimToken BY <1>6 DEF ClaimToken, CoreUnchanged
  <1>7. CASE HiddenWhileWaiting BY <1>7 DEF HiddenWhileWaiting, Presented, CoreUnchanged
  <1>8. CASE DupFailed BY <1>8 DEF DupFailed, Presented, CoreUnchanged
  <1>9. CASE Park BY <1>9 DEF Park, CoreUnchanged
  <1>10. CASE ScheduleDrain BY <1>10 DEF ScheduleDrain, CoreUnchanged, Schedule
  <1>11. CASE LeaveGate BY <1>11 DEF LeaveGate, Presented, CoreUnchanged
  <1>12. CASE Occlusion BY <1>12, TailOfMail DEF Occlusion
  <1>13. CASE FrameReady BY <1>13 DEF FrameReady, RendererUnchanged
  <1>14. CASE DrainBegins BY <1>14 DEF DrainBegins, RendererUnchanged
  <1>15. CASE DrainHidden BY <1>15 DEF DrainHidden, RendererUnchanged, DrainRest
  <1>16. CASE DrainImage BY <1>16 DEF DrainImage, RendererUnchanged, DrainRest
  <1>17. CASE DrainNothing BY <1>17 DEF DrainNothing, RendererUnchanged, DrainRest
  <1>18. CASE DrainFrame
    BY <1>18 DEF DrainFrame, RendererUnchanged, DrainRest, RefuseDmabuf, ArmCallback
  <1>19. CASE InlineDraw BY <1>19 DEF InlineDraw, Schedule
  <1>20. CASE InlineDrawImage BY <1>20 DEF InlineDrawImage, RendererUnchanged
  <1>21. CASE Hide BY <1>21 DEF Hide, RendererUnchanged
  <1>22. CASE HideFinish
    <2>1. mail' = mail \/ mail' = Append(mail, FALSE)
      BY <1>22, Zenon DEF HideFinish, Tell
    <2> QED BY <2>1, MoreMail
  <1>23. CASE DetachFromTopLevel
    BY <1>23 DEF DetachFromTopLevel, RendererUnchanged, Detach
  <1>24. CASE PlatformDestroyed
    BY <1>24 DEF PlatformDestroyed, RendererUnchanged, DestroyPresenter
  <1>25. CASE ShowTopLevel
    BY <1>25 DEF ShowTopLevel, RendererUnchanged, DestroyPresenter
  <1>26. CASE ShowReattach BY <1>26 DEF ShowReattach, RendererUnchanged, ArmCallback
  <1>27. CASE ShowCreate BY <1>27 DEF ShowCreate, RendererUnchanged
  <1>28. CASE ExitCloseParked BY <1>28 DEF ExitCloseParked, RendererUnchanged
  <1>29. CASE ExitWake BY <1>29 DEF ExitWake, RendererUnchanged
  <1>30. CASE ExitJoined BY <1>30 DEF ExitJoined, RendererUnchanged, DestroyPresenter
  <1>31. CASE CompositorFrame BY <1>31 DEF CompositorFrame, RendererUnchanged
  <1>32. ASSUME NEW changed \in BOOLEAN, UpdateFrame(changed) PROVE mail' \in Seq(BOOLEAN)
    BY <1>32 DEF UpdateFrame
  <1>33. ASSUME NEW b \in Buffers, BufferReleased(b) PROVE mail' \in Seq(BOOLEAN)
    BY <1>33 DEF BufferReleased, RendererUnchanged
  <1>34. ASSUME NEW s \in Sizes, Resize(s) PROVE mail' \in Seq(BOOLEAN)
    BY <1>34 DEF Resize, RendererUnchanged, AfterResize
  <1>35. ASSUME NEW s \in Sizes, Show(s) PROVE mail' \in Seq(BOOLEAN)
    <2>1. mail' = mail \/ mail' = Append(mail, TRUE)
      BY <1>35, Zenon DEF Show, Tell
    <2> QED BY <2>1, MoreMail
  <1>36. ASSUME NEW b \in Buffers, CompositorRelease(b) PROVE mail' \in Seq(BOOLEAN)
    BY <1>36 DEF CompositorRelease, RendererUnchanged
  <1>37. CASE UNCHANGED vars BY <1>37 DEF vars
  <1> QED
    BY <1>1, <1>2, <1>3, <1>4, <1>5, <1>6, <1>7, <1>8, <1>9, <1>10, <1>11, <1>12, <1>13,
       <1>14, <1>15, <1>16, <1>17, <1>18, <1>19, <1>20, <1>21, <1>22, <1>23, <1>24,
       <1>25, <1>26, <1>27, <1>28, <1>29, <1>30, <1>31, <1>32, <1>33, <1>34, <1>35,
       <1>36, <1>37
    DEF Next, Renderer, RendererPresents, Gui, Compositor, Drain, Inline, Showing, Exit

\* The counters stay within their bounds; inFlight never goes below zero.
LEMMA CountsKept ==
    ASSUME Counts, Proxies, Targets, Reserved, [Next]_vars
    PROVE  Counts'
  <1> USE ConstantsOK
      DEF Counts, widget, gate, parking, images, surfaceOf, compositor, occlusion,
          drawing, guiAt, rendererAt, bounds, Decremented
  <1>1. CASE Draw BY <1>1 DEF Draw, Redraw
  <1>2. CASE ChoosePath BY <1>2 DEF ChoosePath, CoreUnchanged
  <1>3. CASE HiddenReturns BY <1>3 DEF HiddenReturns, Presented, CoreUnchanged
  <1>4. CASE PresentImage BY <1>4 DEF PresentImage, Presented, CoreUnchanged, Schedule
  <1>5. CASE EnterWait BY <1>5 DEF EnterWait, CoreUnchanged
  <1>6. CASE ClaimToken BY <1>6 DEF ClaimToken, CoreUnchanged
  <1>7. CASE HiddenWhileWaiting BY <1>7 DEF HiddenWhileWaiting, Presented, CoreUnchanged
  <1>8. CASE DupFailed BY <1>8 DEF DupFailed, Presented, CoreUnchanged
  <1>9. CASE Park BY <1>9 DEF Park, CoreUnchanged
  <1>10. CASE ScheduleDrain BY <1>10 DEF ScheduleDrain, CoreUnchanged, Schedule
  <1>11. CASE LeaveGate BY <1>11 DEF LeaveGate, Presented, CoreUnchanged
  <1>12. CASE Occlusion BY <1>12 DEF Occlusion
  <1>13. CASE FrameReady BY <1>13 DEF FrameReady, RendererUnchanged
  <1>14. CASE DrainBegins BY <1>14 DEF DrainBegins, RendererUnchanged
  <1>15. CASE DrainHidden BY <1>15 DEF DrainHidden, RendererUnchanged, DrainRest
  <1>16. CASE DrainImage BY <1>16 DEF DrainImage, RendererUnchanged, DrainRest
  <1>17. CASE DrainNothing BY <1>17 DEF DrainNothing, RendererUnchanged, DrainRest
  <1>18. CASE DrainFrame
    <2>1. inFlight' \in 0..MaxInFlight
      <3>1. CASE SizeOf(parked) # size
        BY <1>18, <3>1 DEF DrainFrame
      <3>2. CASE SizeOf(parked) = size
        <4>1. CASE PresentDmabuf(parked)
          BY <3>2, <4>1, RealSize, PresentTypes DEF Targets
        <4>2. CASE RefuseDmabuf \/ ImportFailed(parked)
          BY <4>2 DEF RefuseDmabuf, ImportFailed
        <4> QED BY <1>18, <3>2, <4>1, <4>2, Zenon DEF DrainFrame
      <3> QED BY <3>1, <3>2
    <2>2. UNCHANGED <<posted, cells, hides, moves, teardowns, resizes>>
      BY <1>18 DEF DrainFrame, DrainRest, RendererUnchanged
    <2> QED BY <2>1, <2>2
  <1>19. CASE InlineDraw BY <1>19 DEF InlineDraw, Redraw, Schedule
  <1>20. CASE InlineDrawImage BY <1>20 DEF InlineDrawImage, RendererUnchanged
  <1>21. CASE Hide BY <1>21 DEF Hide, RendererUnchanged
  <1>22. CASE HideFinish BY <1>22 DEF HideFinish, Detach, Commit, Tell, Told
  <1>23. CASE DetachFromTopLevel
    BY <1>23 DEF DetachFromTopLevel, RendererUnchanged, Detach, Commit
  <1>24. CASE PlatformDestroyed
    BY <1>24 DEF PlatformDestroyed, RendererUnchanged, DestroyPresenter, Commit
  <1>25. CASE ShowTopLevel
    BY <1>25 DEF ShowTopLevel, RendererUnchanged, DestroyPresenter, Commit
  <1>26. CASE ShowReattach
    BY <1>26 DEF ShowReattach, RendererUnchanged, Commit, ArmCallback
  <1>27. CASE ShowCreate BY <1>27 DEF ShowCreate, RendererUnchanged
  <1>28. CASE ExitCloseParked BY <1>28 DEF ExitCloseParked, RendererUnchanged
  <1>29. CASE ExitWake BY <1>29 DEF ExitWake, RendererUnchanged
  <1>30. CASE ExitJoined
    BY <1>30 DEF ExitJoined, RendererUnchanged, DestroyPresenter, Commit
  <1>31. CASE CompositorFrame BY <1>31 DEF CompositorFrame, RendererUnchanged
  <1>32. ASSUME NEW changed \in BOOLEAN, UpdateFrame(changed) PROVE Counts'
    BY <1>32 DEF UpdateFrame
  <1>33. ASSUME NEW b \in Buffers, BufferReleased(b) PROVE Counts'
    BY <1>33 DEF BufferReleased, RendererUnchanged
  <1>34. ASSUME NEW s \in Sizes, Resize(s) PROVE Counts'
    BY <1>34 DEF Resize, RendererUnchanged, AfterResize
  <1>35. ASSUME NEW s \in Sizes, Show(s) PROVE Counts'
    BY <1>35 DEF Show, AfterResize, Tell, Told
  <1>36. ASSUME NEW b \in Buffers, CompositorRelease(b) PROVE Counts'
    BY <1>36 DEF CompositorRelease, RendererUnchanged
  <1>37. CASE UNCHANGED vars BY <1>37 DEF vars
  <1> QED
    BY <1>1, <1>2, <1>3, <1>4, <1>5, <1>6, <1>7, <1>8, <1>9, <1>10, <1>11, <1>12, <1>13,
       <1>14, <1>15, <1>16, <1>17, <1>18, <1>19, <1>20, <1>21, <1>22, <1>23, <1>24,
       <1>25, <1>26, <1>27, <1>28, <1>29, <1>30, <1>31, <1>32, <1>33, <1>34, <1>35,
       <1>36, <1>37
    DEF Next, Renderer, RendererPresents, Gui, Compositor, Drain, Inline, Showing, Exit

\* What is parked and what the presenter and the compositor hold are dma-bufs.
LEMMA ProxiesKept ==
    ASSUME Proxies, Counts, Targets, Places, Reserved, [Next]_vars
    PROVE  Proxies'
  <1> USE DEF Proxies, widget, gate, parking, images, surfaceOf, compositor, occlusion,
          drawing, guiAt, rendererAt, bounds
  <1>1. CASE Draw BY <1>1 DEF Draw
  <1>2. CASE ChoosePath BY <1>2 DEF ChoosePath, CoreUnchanged
  <1>3. CASE HiddenReturns BY <1>3 DEF HiddenReturns, Presented, CoreUnchanged
  <1>4. CASE PresentImage BY <1>4 DEF PresentImage, Presented, CoreUnchanged, Schedule
  <1>5. CASE EnterWait BY <1>5 DEF EnterWait, CoreUnchanged
  <1>6. CASE ClaimToken BY <1>6 DEF ClaimToken, CoreUnchanged
  <1>7. CASE HiddenWhileWaiting BY <1>7 DEF HiddenWhileWaiting, Presented, CoreUnchanged
  <1>8. CASE DupFailed BY <1>8 DEF DupFailed, Presented, CoreUnchanged
  <1>9. CASE Park
    <2>1. rframe \in Slots
      BY <1>9 DEF Park, Targets, Presenting
    <2>2. parked' \in Buffers \cup {Blank}
      BY <1>9, <2>1 DEF Park, Exported, Targets
    <2> QED BY <1>9, <2>2 DEF Park
  <1>10. CASE ScheduleDrain BY <1>10 DEF ScheduleDrain, CoreUnchanged, Schedule
  <1>11. CASE LeaveGate BY <1>11 DEF LeaveGate, Presented, CoreUnchanged
  <1>12. CASE Occlusion BY <1>12 DEF Occlusion
  <1>13. CASE FrameReady BY <1>13 DEF FrameReady, RendererUnchanged
  <1>14. CASE DrainBegins BY <1>14 DEF DrainBegins, RendererUnchanged
  <1>15. CASE DrainHidden BY <1>15 DEF DrainHidden, RendererUnchanged, DrainRest
  <1>16. CASE DrainImage BY <1>16 DEF DrainImage, RendererUnchanged, DrainRest
  <1>17. CASE DrainNothing BY <1>17 DEF DrainNothing, RendererUnchanged, DrainRest
  <1>18. CASE DrainFrame
    <2>1. parked' = NoBuffer
      BY <1>18 DEF DrainFrame
    <2>2. CASE UNCHANGED <<surfaceOf, compositor>>
      BY <2>1, <2>2
    <2>3. CASE SizeOf(parked) = size /\ PresentDmabuf(parked)
      BY <2>1, <2>3, RealSize, PresentTypes DEF Targets
    <2>4. CASE ImportFailed(parked)
      BY <2>1, <2>4 DEF ImportFailed
    <2>5. \/ UNCHANGED <<surfaceOf, compositor>>
          \/ SizeOf(parked) = size /\ PresentDmabuf(parked)
          \/ ImportFailed(parked)
      BY <1>18, Zenon DEF DrainFrame, RefuseDmabuf
    <2> QED BY <2>2, <2>3, <2>4, <2>5
  <1>19. CASE InlineDraw
    <2>1. parked' \in {parked, slots'[NextSlot]}
      BY <1>19 DEF InlineDraw
    <2>2. slots'[NextSlot] \in Buffers
      BY <1>19, RedrawTargets DEF InlineDraw
    <2> QED BY <1>19, <2>1, <2>2 DEF InlineDraw
  <1>20. CASE InlineDrawImage BY <1>20 DEF InlineDrawImage, RendererUnchanged
  <1>21. CASE Hide BY <1>21 DEF Hide, RendererUnchanged
  <1>22. CASE HideFinish BY <1>22 DEF HideFinish, Detach, Commit, Tell, Told
  <1>23. CASE DetachFromTopLevel
    BY <1>23 DEF DetachFromTopLevel, RendererUnchanged, Detach, Commit
  <1>24. CASE PlatformDestroyed
    BY <1>24 DEF PlatformDestroyed, RendererUnchanged, DestroyPresenter, Commit
  <1>25. CASE ShowTopLevel
    BY <1>25 DEF ShowTopLevel, RendererUnchanged, DestroyPresenter, Commit
  <1>26. CASE ShowReattach
    BY <1>26 DEF ShowReattach, RendererUnchanged, Commit, ArmCallback
  <1>27. CASE ShowCreate BY <1>27 DEF ShowCreate, RendererUnchanged
  <1>28. CASE ExitCloseParked BY <1>28 DEF ExitCloseParked, RendererUnchanged
  <1>29. CASE ExitWake BY <1>29 DEF ExitWake, RendererUnchanged
  <1>30. CASE ExitJoined
    BY <1>30 DEF ExitJoined, RendererUnchanged, DestroyPresenter, Commit
  <1>31. CASE CompositorFrame BY <1>31 DEF CompositorFrame, RendererUnchanged
  <1>32. ASSUME NEW changed \in BOOLEAN, UpdateFrame(changed) PROVE Proxies'
    BY <1>32 DEF UpdateFrame
  <1>33. ASSUME NEW b \in Buffers, BufferReleased(b) PROVE Proxies'
    BY <1>33 DEF BufferReleased, RendererUnchanged
  <1>34. ASSUME NEW s \in Sizes, Resize(s) PROVE Proxies'
    BY <1>34 DEF Resize, RendererUnchanged, AfterResize
  <1>35. ASSUME NEW s \in Sizes, Show(s) PROVE Proxies'
    BY <1>35 DEF Show, AfterResize, Tell, Told
  <1>36. ASSUME NEW b \in Buffers, CompositorRelease(b) PROVE Proxies'
    BY <1>36 DEF CompositorRelease, RendererUnchanged
  <1>37. CASE UNCHANGED vars BY <1>37 DEF vars
  <1> QED
    BY <1>1, <1>2, <1>3, <1>4, <1>5, <1>6, <1>7, <1>8, <1>9, <1>10, <1>11, <1>12, <1>13,
       <1>14, <1>15, <1>16, <1>17, <1>18, <1>19, <1>20, <1>21, <1>22, <1>23, <1>24,
       <1>25, <1>26, <1>27, <1>28, <1>29, <1>30, <1>31, <1>32, <1>33, <1>34, <1>35,
       <1>36, <1>37
    DEF Next, Renderer, RendererPresents, Gui, Compositor, Drain, Inline, Showing, Exit

\* The swap chain, its sizes and its contents.
LEMMA TargetsKept ==
    ASSUME Proxies, Counts, Targets, Places, [Next]_vars
    PROVE  Targets'
  <1> USE DEF Targets, Places, Presenting, widget, gate, parking, images, surfaceOf,
          compositor, occlusion, drawing, guiAt, rendererAt, bounds
  <1>1. CASE Draw
    <2>1. UNCHANGED <<size, lastTarget>> /\ rpc' \in {"present", "idle"}
      BY <1>1, Zenon DEF Draw
    <2>2. \/ Redraw /\ rframe' = NextSlot
          \/ rframe' = lastTarget /\ lastTarget # NoSlot
             /\ UNCHANGED <<screen, slots, index, made, sizeOf, pix>>
          \/ UNCHANGED <<rframe, screen, slots, index, made, sizeOf, pix>> /\ rpc' = "idle"
      BY <1>1, Zenon DEF Draw
    <2>3. NextSlot \in Slots
      BY NextSlotIn
    <2> QED BY <2>1, <2>2, <2>3, RedrawTargets
  <1>2. CASE ChoosePath BY <1>2 DEF ChoosePath, CoreUnchanged
  <1>3. CASE HiddenReturns BY <1>3 DEF HiddenReturns, Presented, CoreUnchanged
  <1>4. CASE PresentImage BY <1>4 DEF PresentImage, Presented, CoreUnchanged, Schedule
  <1>5. CASE EnterWait BY <1>5 DEF EnterWait, CoreUnchanged
  <1>6. CASE ClaimToken BY <1>6 DEF ClaimToken, CoreUnchanged
  <1>7. CASE HiddenWhileWaiting BY <1>7 DEF HiddenWhileWaiting, Presented, CoreUnchanged
  <1>8. CASE DupFailed BY <1>8 DEF DupFailed, Presented, CoreUnchanged
  <1>9. CASE Park BY <1>9 DEF Park, CoreUnchanged
  <1>10. CASE ScheduleDrain BY <1>10 DEF ScheduleDrain, CoreUnchanged, Schedule
  <1>11. CASE LeaveGate BY <1>11 DEF LeaveGate, Presented, CoreUnchanged
  <1>12. CASE Occlusion
    <2>1. index' \in {0, index} /\ slots' \in {slots, [s \in Slots |-> NoBuffer]}
      BY <1>12, Zenon DEF Occlusion
    <2>2. 0 \in Slots
      BY ConstantsOK DEF Slots
    <2>3. UNCHANGED <<size, screen, lastTarget, rframe, made, sizeOf, pix>>
      BY <1>12, Zenon DEF Occlusion
    <2>4. rpc' \in {"idle", "woken"}
      BY <1>12, Zenon DEF Occlusion
    <2> QED BY <2>1, <2>2, <2>3, <2>4
  <1>13. CASE FrameReady BY <1>13 DEF FrameReady, RendererUnchanged
  <1>14. CASE DrainBegins BY <1>14 DEF DrainBegins, RendererUnchanged
  <1>15. CASE DrainHidden BY <1>15 DEF DrainHidden, RendererUnchanged, DrainRest
  <1>16. CASE DrainImage BY <1>16 DEF DrainImage, RendererUnchanged, DrainRest
  <1>17. CASE DrainNothing BY <1>17 DEF DrainNothing, RendererUnchanged, DrainRest
  <1>18. CASE DrainFrame
    BY <1>18
    DEF DrainFrame, RendererUnchanged, DrainRest, PresentDmabuf, RefuseDmabuf, Commit,
        ArmCallback
  <1>19. CASE InlineDraw
    <2>1. UNCHANGED <<size, lastTarget, rpc, rframe>> /\ Redraw
      BY <1>19 DEF InlineDraw
    <2> QED BY <2>1, RedrawTargets
  <1>20. CASE InlineDrawImage BY <1>20 DEF InlineDrawImage, RendererUnchanged
  <1>21. CASE Hide BY <1>21 DEF Hide, RendererUnchanged
  <1>22. CASE HideFinish BY <1>22 DEF HideFinish, Detach, Commit, Tell, Told
  <1>23. CASE DetachFromTopLevel
    BY <1>23 DEF DetachFromTopLevel, RendererUnchanged, Detach, Commit
  <1>24. CASE PlatformDestroyed
    BY <1>24 DEF PlatformDestroyed, RendererUnchanged, DestroyPresenter, Commit
  <1>25. CASE ShowTopLevel
    BY <1>25 DEF ShowTopLevel, RendererUnchanged, DestroyPresenter, Commit
  <1>26. CASE ShowReattach
    BY <1>26 DEF ShowReattach, RendererUnchanged, Commit, ArmCallback
  <1>27. CASE ShowCreate BY <1>27 DEF ShowCreate, RendererUnchanged
  <1>28. CASE ExitCloseParked BY <1>28 DEF ExitCloseParked, RendererUnchanged
  <1>29. CASE ExitWake BY <1>29 DEF ExitWake, RendererUnchanged
  <1>30. CASE ExitJoined
    BY <1>30 DEF ExitJoined, RendererUnchanged, DestroyPresenter, Commit
  <1>31. CASE CompositorFrame BY <1>31 DEF CompositorFrame, RendererUnchanged
  <1>32. ASSUME NEW changed \in BOOLEAN, UpdateFrame(changed) PROVE Targets'
    BY <1>32 DEF UpdateFrame
  <1>33. ASSUME NEW b \in Buffers, BufferReleased(b) PROVE Targets'
    BY <1>33 DEF BufferReleased, RendererUnchanged
  <1>34. ASSUME NEW s \in Sizes, Resize(s) PROVE Targets'
    BY <1>34 DEF Resize, RendererUnchanged, AfterResize
  <1>35. ASSUME NEW s \in Sizes, Show(s) PROVE Targets'
    BY <1>35 DEF Show, AfterResize, Tell, Told
  <1>36. ASSUME NEW b \in Buffers, CompositorRelease(b) PROVE Targets'
    BY <1>36 DEF CompositorRelease, RendererUnchanged
  <1>37. CASE UNCHANGED vars BY <1>37 DEF vars
  <1> QED
    BY <1>1, <1>2, <1>3, <1>4, <1>5, <1>6, <1>7, <1>8, <1>9, <1>10, <1>11, <1>12, <1>13,
       <1>14, <1>15, <1>16, <1>17, <1>18, <1>19, <1>20, <1>21, <1>22, <1>23, <1>24,
       <1>25, <1>26, <1>27, <1>28, <1>29, <1>30, <1>31, <1>32, <1>33, <1>34, <1>35,
       <1>36, <1>37
    DEF Next, Renderer, RendererPresents, Gui, Compositor, Drain, Inline, Showing, Exit

\* The initial states are typed.
LEMMA TypesInit ==
    ASSUME Init
    PROVE  Types
  <1> USE ConstantsOK DEF Init
  <1>1. Flags BY Zenon DEF Flags
  <1>2. Counts BY DEF Counts
  <1>3. Proxies BY DEF Proxies
  <1>4. Targets BY DEF Targets, Presenting, Slots, NoSlot
  <1>5. Places BY DEF Places
  <1>6. mail \in Seq(BOOLEAN) OBVIOUS
  <1> QED BY <1>1, <1>2, <1>3, <1>4, <1>5, <1>6 DEF Types

\* Every variable keeps its type, for any number of targets, buffers, sizes
\* and events.
THEOREM WellTyped ==
    ASSUME Reserved
    PROVE  Spec => []TypeOK
  <1>1. Init => Types
    BY TypesInit
  <1>2. Types /\ [Next]_vars => Types'
    BY PlacesKept, FlagsKept, MailKept, CountsKept, ProxiesKept, TargetsKept DEF Types
  <1>3. Types => TypeOK
    <2> SUFFICES ASSUME Types PROVE TypeOK
      OBVIOUS
    <2>1. {hidden, useSubsurface, ready, drainScheduled, hasFrame, imagePending, image,
           presenter, visible, rebuilt, chain, moved} \subseteq BOOLEAN
      BY Zenon DEF Types, Flags
    <2>2. inFlight \in 0..MaxInFlight /\ posted \in Nat
          /\ hides \in 0..MaxHides /\ moves \in 0..MaxMoves
          /\ teardowns \in 0..MaxTeardowns /\ resizes \in 0..MaxResizes /\ cells \in 0..MaxCells
      BY DEF Types, Counts
    <2>3. /\ parked \in Buffers \cup {NoBuffer, Blank}
          /\ {cache, retired, releases} \subseteq SUBSET Buffers
          /\ {last, awaiting, shown} \subseteq Buffers \cup {NoBuffer}
          /\ callback \in {"none", "armed", "done"}
      BY DEF Types, Proxies
    <2>4. /\ {size, screen} \subseteq Sizes
          /\ slots \in [Slots -> Buffers \cup {NoBuffer}] /\ index \in Slots
          /\ {lastTarget, rframe} \subseteq Slots \cup {NoSlot}
          /\ made \in 0..MaxBuffers /\ sizeOf \in [Buffers -> Sizes]
          /\ pix \in [Buffers -> 0..MaxCells]
      BY DEF Types, Targets
    <2>5. Places /\ mail \in Seq(BOOLEAN)
      BY DEF Types
    <2>6. /\ lock \in {"free", "renderer"}
          /\ rpc \in {"idle", "woken", "draw", "present", "checkPark", "checkImage", "wait1",
                      "park", "schedule", "wait2"}
          /\ {gpc, gret} \subseteq {"idle", "clear", "take", "lock", "takeImage", "hide", "show",
                                    "attach", "exit2", "exit3", "gone"}
      BY <2>5 DEF Places, Presenting
    <2> QED BY <2>1, <2>2, <2>3, <2>4, <2>5, <2>6 DEF TypeOK
  <1> QED BY <1>1, <1>2, <1>3, PTL DEF Spec, Init_Next

=============================================================================
