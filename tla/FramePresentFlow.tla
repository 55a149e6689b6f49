--------------------------- MODULE FramePresentFlow ---------------------------
(*****************************************************************************)
(* What the presentation path of a surface that is shown and hidden, and     *)
(* otherwise left alone, keeps on its way: the parked frame, the token of    *)
(* the first wait, the buffer of the second, and the newest contents. Some   *)
(* events take these promises away, see Still and Fixed, and so does a frame *)
(* the presenter cannot import, see Accepted; a surface that is hidden and   *)
(* shown again, contents that change meanwhile, waits that time out and the  *)
(* destructor do not.                                                        *)
(*****************************************************************************)
EXTENDS FramePresentProofs, SequenceTheorems

\* The widget has kept its top-level window and its platform window. A frame parked
\* for a presenter that goes stays parked until the next drain.
Still == moves = 0 /\ teardowns = 0

\* And its size. A drain drops a frame of the wrong size together with the token it
\* was parked with, and no callback follows.
Fixed == Still /\ resizes = 0

\* The destructor has begun.
Exiting == gpc \in {"exit2", "exit3", "gone"}

\* The slot m_drainScheduled is only taken while an invocation is queued, so a
\* parked frame has one, or the renderer is about to post it, or the drain has
\* begun and is going to look.
FlowInv ==
    /\ gpc # "gone" => presenter /\ useSubsurface
    /\ gpc = "gone" => rpc \in {"idle", "woken"}
    /\ ~imagePending /\ rpc # "checkImage" /\ ~moved
    /\ drainScheduled /\ gpc # "gone" => posted > 0
    /\ parked # NoBuffer => posted > 0 \/ rpc = "schedule" \/ gpc \in {"take", "gone"}

\* With one size, the GUI thread never draws, every buffer fits, and the target
\* the renderer presents has been drawn to, also when it is an old one.
FrameInv ==
    /\ gpc \notin {"lock", "clear", "takeImage"} /\ gret = "idle" /\ screen = size
    /\ \A b \in Buffers : sizeOf[b] = size
    /\ rpc \in Presenting => slots[rframe] # NoBuffer
    /\ chain /\ lastTarget # NoSlot /\ rpc \notin Presenting
       => slots[lastTarget] # NoBuffer
    /\ parked \in Buffers \cup {NoBuffer}

\* The token is there, or on its way: with the frame callback, with the parked
\* frame, with the renderer that is about to park it, or with the Hide event. A
\* hidden surface has it, since the drain of a hidden surface returns none.
TokenInv ==
    /\ \/ ready \/ callback # "none" \/ rpc = "park" \/ parked # NoBuffer
       \/ gpc = "hide" \/ Exiting
    /\ hidden => ready \/ gpc = "hide" \/ Exiting

\* The presenter remembers what the compositor shows, and waits for a buffer
\* that is in its cache and was replaced.
CacheInv ==
    /\ last # NoBuffer => last \in cache
    /\ awaiting # NoBuffer => awaiting \in cache /\ awaiting # last /\ last # NoBuffer
    /\ gpc = "hide" => hidden
    /\ ~Exiting => shown \in {NoBuffer, last}
    /\ ~Exiting /\ ~hidden /\ gpc \notin {"show", "attach"} => shown = last

\* The buffers in flight never outnumber the swap chain; when they are as many,
\* the renderer is at the gate, and one of them is parked or will be released.
GateInv ==
    /\ ~Exiting /\ gpc # "hide" /\ hidden => inFlight = 0
    /\ ~Exiting /\ ~hidden =>
         /\ inFlight <= SwapChainCount
         /\ inFlight = SwapChainCount =>
              /\ rpc \in {"park", "schedule", "wait2"}
              /\ rpc = "park" \/ parked # NoBuffer \/ awaiting \in retired \cup releases

\* Of a still surface, the top-level and the platform window stay.
LEMMA NothingMoves ==
    ASSUME Counts, Still'
    PROVE  ~DetachFromTopLevel /\ ~PlatformDestroyed
  BY DEF Still, Counts, DetachFromTopLevel, PlatformDestroyed

\* A queued invocation, a scheduled drain and a parked frame keep together.
LEMMA FlowKept ==
    ASSUME Still', Flags, Counts, Places, FlowInv, [Next]_vars
    PROVE  FlowInv'
  <1> USE DEF Flags, Counts, Places, FlowInv, widget, gate, parking, images, surfaceOf,
          compositor, occlusion, drawing, guiAt, rendererAt, bounds
  <1>1. CASE Draw BY <1>1 DEF Draw
  <1>2. CASE ChoosePath BY <1>2 DEF ChoosePath, CoreUnchanged
  <1>3. CASE HiddenReturns BY <1>3 DEF HiddenReturns, Presented, CoreUnchanged
  <1>4. CASE PresentImage BY <1>4 DEF PresentImage, Presented, CoreUnchanged, Schedule
  <1>5. CASE EnterWait BY <1>5 DEF EnterWait, CoreUnchanged
  <1>6. CASE ClaimToken BY <1>6 DEF ClaimToken, CoreUnchanged
  <1>7. CASE HiddenWhileWaiting BY <1>7 DEF HiddenWhileWaiting, Presented, CoreUnchanged
  <1>8. CASE DupFailed BY <1>8 DEF DupFailed, Presented, CoreUnchanged
  <1>9. CASE Park BY <1>9 DEF Park, CoreUnchanged
  <1>10. CASE ScheduleDrain BY <1>10 DEF ScheduleDrain, CoreUnchanged, Schedule
  <1>11. CASE LeaveGate BY <1>11 DEF LeaveGate, Presented, CoreUnchanged
  <1>12. CASE Occlusion BY <1>12 DEF Occlusion
  <1>13. CASE FrameReady BY <1>13 DEF FrameReady, RendererUnchanged
  <1>14. CASE DrainBegins BY <1>14 DEF DrainBegins, RendererUnchanged
  <1>15. CASE DrainHidden BY <1>15 DEF DrainHidden, RendererUnchanged, DrainRest
  <1>16. CASE DrainImage BY <1>16 DEF DrainImage, RendererUnchanged, DrainRest
  <1>17. CASE DrainNothing BY <1>17 DEF DrainNothing, RendererUnchanged, DrainRest
  <1>18. CASE DrainFrame
    <2>1. UNCHANGED <<useSubsurface, imagePending, rpc, moved, drainScheduled, posted>>
          /\ gpc = "take" /\ gpc' = gret /\ parked' = NoBuffer
      BY <1>18 DEF DrainFrame, DrainRest, RendererUnchanged
    <2>2. UNCHANGED presenter
      BY <1>18, Zenon DEF DrainFrame, RefuseDmabuf, ImportFailed
    <2> QED BY <2>1, <2>2
  <1>19. CASE InlineDraw BY <1>19 DEF InlineDraw, Schedule
  <1>20. CASE InlineDrawImage BY <1>20 DEF InlineDrawImage, RendererUnchanged
  <1>21. CASE Hide BY <1>21 DEF Hide, RendererUnchanged
  <1>22. CASE HideFinish BY <1>22 DEF HideFinish, Detach
  <1>23. CASE DetachFromTopLevel BY <1>23, NothingMoves DEF Fixed, Types
  <1>24. CASE PlatformDestroyed BY <1>24, NothingMoves DEF Fixed, Types
  <1>25. CASE ShowTopLevel
    BY <1>25 DEF ShowTopLevel, RendererUnchanged, DestroyPresenter
  <1>26. CASE ShowReattach BY <1>26 DEF ShowReattach, RendererUnchanged
  <1>27. CASE ShowCreate BY <1>27 DEF ShowCreate, RendererUnchanged
  <1>28. CASE ExitCloseParked BY <1>28 DEF ExitCloseParked, RendererUnchanged
  <1>29. CASE ExitWake BY <1>29 DEF ExitWake, RendererUnchanged
  <1>30. CASE ExitJoined BY <1>30 DEF ExitJoined, RendererUnchanged, DestroyPresenter
  <1>31. CASE CompositorFrame BY <1>31 DEF CompositorFrame, RendererUnchanged
  <1>32. ASSUME NEW changed \in BOOLEAN, UpdateFrame(changed) PROVE FlowInv'
    BY <1>32 DEF UpdateFrame
  <1>33. ASSUME NEW b \in Buffers, BufferReleased(b) PROVE FlowInv'
    BY <1>33 DEF BufferReleased, RendererUnchanged
  <1>34. ASSUME NEW s \in Sizes, Resize(s) PROVE FlowInv'
    BY <1>34 DEF Resize, RendererUnchanged, AfterResize
  <1>35. ASSUME NEW s \in Sizes, Show(s) PROVE FlowInv'
    BY <1>35 DEF Show, AfterResize
  <1>36. ASSUME NEW b \in Buffers, CompositorRelease(b) PROVE FlowInv'
    BY <1>36 DEF CompositorRelease, RendererUnchanged
  <1>37. CASE UNCHANGED vars BY <1>37 DEF vars
  <1> QED
    BY <1>1, <1>2, <1>3, <1>4, <1>5, <1>6, <1>7, <1>8, <1>9, <1>10, <1>11, <1>12, <1>13,
       <1>14, <1>15, <1>16, <1>17, <1>18, <1>19, <1>20, <1>21, <1>22, <1>23, <1>24,
       <1>25, <1>26, <1>27, <1>28, <1>29, <1>30, <1>31, <1>32, <1>33, <1>34, <1>35,
       <1>36, <1>37
    DEF Next, Renderer, RendererPresents, Gui, Compositor, Drain, Inline, Showing, Exit

\* What the renderer parks is a buffer that was drawn to.
LEMMA Parks ==
    ASSUME Types, FrameInv, Park
    PROVE  parked' \in Buffers /\ parked' # NoBuffer
  <1>1. parked' \in Buffers
    BY DEF FrameInv, Park, Exported, Types, Targets, Presenting
  <1> QED BY <1>1 DEF Buffers, NoBuffer

\* A Show event brings the size there was, and no resize comes.
LEMMA OnlyTheSize ==
    ASSUME Counts, Fixed', NEW s \in Sizes, Resize(s) \/ Show(s)
    PROVE  s = size /\ Show(s) /\ gpc' = "show" /\ UNCHANGED gret
  <1> USE DEF Fixed, Counts
  <1>1. ~Resize(s)
    BY DEF Resize
  <1>2. resizes' = IF s # size THEN resizes + 1 ELSE resizes
    BY <1>1, Zenon DEF Show
  <1>3. s = size
    BY <1>2
  <1> QED BY <1>1, <1>3, Zenon DEF Show

\* The targets of a surface of one size.
LEMMA FrameKept ==
    ASSUME Accepted, Fixed', Types, FlowInv, FrameInv, [Next]_vars
    PROVE  FrameInv'
  <1> USE DEF Types, Counts, Places, Targets, Presenting, FlowInv, FrameInv, widget,
          gate, parking, images, surfaceOf, compositor, occlusion, drawing, guiAt,
          rendererAt, bounds
  <1>1. CASE Draw
    <2>1. UNCHANGED <<gpc, gret, size, lastTarget, parked>> /\ rpc' \in {"present", "idle"}
      BY <1>1, Zenon DEF Draw
    <2>2. CASE Redraw /\ rpc' = "present" /\ rframe' = NextSlot
      <3>1. screen' = size /\ \A b \in Buffers : sizeOf'[b] = size
        BY <2>2 DEF Redraw
      <3>2. slots'[NextSlot] \in Buffers
        BY <2>2, RedrawTargets
      <3> QED BY <2>1, <2>2, <3>1, <3>2 DEF Buffers, NoBuffer
    <2>3. CASE /\ ~NeedsRedraw(FALSE) /\ lastTarget # NoSlot
               /\ rpc' = "present" /\ rframe' = lastTarget
               /\ UNCHANGED <<screen, chain, slots, sizeOf>>
      BY <1>1, <2>1, <2>3 DEF Draw, NeedsRedraw
    <2>4. CASE lastTarget = NoSlot /\ rpc' = "idle" /\ UNCHANGED <<screen, chain, slots, sizeOf>>
      BY <2>1, <2>4
    <2> QED BY <1>1, <2>2, <2>3, <2>4, Zenon DEF Draw
  <1>2. CASE ChoosePath BY <1>2 DEF ChoosePath, CoreUnchanged
  <1>3. CASE HiddenReturns BY <1>3 DEF HiddenReturns, Presented, CoreUnchanged
  <1>4. CASE PresentImage BY <1>4 DEF PresentImage, Presented, CoreUnchanged, Schedule
  <1>5. CASE EnterWait BY <1>5 DEF EnterWait, CoreUnchanged
  <1>6. CASE ClaimToken BY <1>6 DEF ClaimToken, CoreUnchanged
  <1>7. CASE HiddenWhileWaiting BY <1>7 DEF HiddenWhileWaiting, Presented, CoreUnchanged
  <1>8. CASE DupFailed BY <1>8 DEF DupFailed, Presented, CoreUnchanged
  <1>9. CASE Park BY <1>9, Parks DEF Park, CoreUnchanged
  <1>10. CASE ScheduleDrain BY <1>10 DEF ScheduleDrain, CoreUnchanged, Schedule
  <1>11. CASE LeaveGate BY <1>11 DEF LeaveGate, Presented, CoreUnchanged
  <1>12. CASE Occlusion
    <2>1. UNCHANGED <<gpc, gret, size, screen, sizeOf, lastTarget, parked>>
          /\ rpc' \in {"woken", "idle"}
      BY <1>12, Zenon DEF Occlusion
    <2>2. chain' = FALSE \/ UNCHANGED <<chain, slots>>
      BY <1>12, Zenon DEF Occlusion
    <2>3. rpc = "idle"
      BY <1>12 DEF Occlusion
    <2> QED BY <2>1, <2>2, <2>3
  <1>13. CASE FrameReady BY <1>13 DEF FrameReady, RendererUnchanged
  <1>14. CASE DrainBegins BY <1>14 DEF DrainBegins, RendererUnchanged
  <1>15. CASE DrainHidden BY <1>15 DEF DrainHidden, RendererUnchanged, DrainRest
  <1>16. CASE DrainImage BY <1>16 DEF DrainImage, RendererUnchanged, DrainRest
  <1>17. CASE DrainNothing BY <1>17 DEF DrainNothing, RendererUnchanged, DrainRest
  <1>18. CASE DrainFrame BY <1>18 DEF DrainFrame, RendererUnchanged, DrainRest
  <1>19. CASE InlineDraw BY <1>19 DEF InlineDraw, Schedule
  <1>20. CASE InlineDrawImage BY <1>20 DEF InlineDrawImage, RendererUnchanged
  <1>21. CASE Hide BY <1>21 DEF Hide, RendererUnchanged
  <1>22. CASE HideFinish BY <1>22 DEF HideFinish, Detach
  <1>23. CASE DetachFromTopLevel
    BY <1>23 DEF DetachFromTopLevel, RendererUnchanged, Detach
  <1>24. CASE PlatformDestroyed
    BY <1>24 DEF PlatformDestroyed, RendererUnchanged, DestroyPresenter
  <1>25. CASE ShowTopLevel
    BY <1>25 DEF ShowTopLevel, RendererUnchanged, DestroyPresenter
  <1>26. CASE ShowReattach BY <1>26 DEF ShowReattach, RendererUnchanged
  <1>27. CASE ShowCreate BY <1>27 DEF ShowCreate, RendererUnchanged
  <1>28. CASE ExitCloseParked BY <1>28 DEF ExitCloseParked, RendererUnchanged
  <1>29. CASE ExitWake BY <1>29 DEF ExitWake, RendererUnchanged
  <1>30. CASE ExitJoined BY <1>30 DEF ExitJoined, RendererUnchanged, DestroyPresenter
  <1>31. CASE CompositorFrame BY <1>31 DEF CompositorFrame, RendererUnchanged
  <1>32. ASSUME NEW changed \in BOOLEAN, UpdateFrame(changed) PROVE FrameInv'
    BY <1>32 DEF UpdateFrame
  <1>33. ASSUME NEW b \in Buffers, BufferReleased(b) PROVE FrameInv'
    BY <1>33 DEF BufferReleased, RendererUnchanged
  <1>34. ASSUME NEW s \in Sizes, Resize(s) PROVE FrameInv'
    BY <1>34, OnlyTheSize DEF Resize
  <1>35. ASSUME NEW s \in Sizes, Show(s) PROVE FrameInv'
    BY <1>35, OnlyTheSize DEF Show
  <1>36. ASSUME NEW b \in Buffers, CompositorRelease(b) PROVE FrameInv'
    BY <1>36 DEF CompositorRelease, RendererUnchanged
  <1>37. CASE UNCHANGED vars BY <1>37 DEF vars
  <1> QED
    BY <1>1, <1>2, <1>3, <1>4, <1>5, <1>6, <1>7, <1>8, <1>9, <1>10, <1>11, <1>12, <1>13,
       <1>14, <1>15, <1>16, <1>17, <1>18, <1>19, <1>20, <1>21, <1>22, <1>23, <1>24,
       <1>25, <1>26, <1>27, <1>28, <1>29, <1>30, <1>31, <1>32, <1>33, <1>34, <1>35,
       <1>36, <1>37
    DEF Next, Renderer, RendererPresents, Gui, Compositor, Drain, Inline, Showing, Exit

\* A drain presents the frame it finds: it is a buffer, and of the right size.
LEMMA DrainTakes ==
    ASSUME Accepted, Types, FlowInv, FrameInv, DrainFrame
    PROVE  /\ PresentDmabuf(parked) /\ parked' = NoBuffer
           /\ ~hidden /\ gpc = "take" /\ gpc' = "idle"
           /\ parked \in Buffers /\ SizeOf(parked) = size
           /\ UNCHANGED <<hidden, ready, presenter, posted, lastTarget, slots, chain, rebuilt,
                          pix, cells, rpc, rframe, mail, visible>>
  <1>1. parked \in Buffers
    BY DEF DrainFrame, FrameInv
  <1>2. SizeOf(parked) = size
    BY <1>1 DEF SizeOf, FrameInv
  <1>3. PresentDmabuf(parked)
    BY <1>2, Zenon DEF DrainFrame, ImportFailed, Accepted
  <1>4. /\ parked' = NoBuffer /\ ~hidden /\ gpc = "take" /\ gpc' = "idle"
        /\ UNCHANGED <<hidden, ready, posted, lastTarget, slots, chain, rebuilt,
                       pix, cells, rpc, rframe, mail, visible>>
    BY DEF DrainFrame, DrainRest, RendererUnchanged, drawing, rendererAt, occlusion,
       FrameInv
  <1>5. UNCHANGED presenter
    BY Zenon DEF DrainFrame, RefuseDmabuf, ImportFailed, surfaceOf
  <1> QED BY <1>1, <1>2, <1>3, <1>4, <1>5

\* No step loses the token of the first wait.
LEMMA TokenKept ==
    ASSUME Accepted, Fixed', Types, FlowInv, FrameInv, TokenInv, [Next]_vars
    PROVE  TokenInv'
  <1> USE DEF Types, Flags, Places, FlowInv, FrameInv, TokenInv, Exiting, widget, gate,
          parking, images, surfaceOf, compositor, occlusion, drawing, guiAt, rendererAt,
          bounds
  <1>1. CASE Draw BY <1>1 DEF Draw
  <1>2. CASE ChoosePath BY <1>2 DEF ChoosePath, CoreUnchanged
  <1>3. CASE HiddenReturns BY <1>3 DEF HiddenReturns, Presented, CoreUnchanged
  <1>4. CASE PresentImage BY <1>4 DEF PresentImage, Presented, CoreUnchanged, Schedule
  <1>5. CASE EnterWait BY <1>5 DEF EnterWait, CoreUnchanged
  <1>6. CASE ClaimToken BY <1>6 DEF ClaimToken, CoreUnchanged
  <1>7. CASE HiddenWhileWaiting BY <1>7 DEF HiddenWhileWaiting, Presented, CoreUnchanged
  <1>8. CASE DupFailed BY <1>8 DEF DupFailed, Presented, CoreUnchanged
  <1>9. CASE Park BY <1>9, Parks DEF Park, CoreUnchanged
  <1>10. CASE ScheduleDrain BY <1>10 DEF ScheduleDrain, CoreUnchanged, Schedule
  <1>11. CASE LeaveGate BY <1>11 DEF LeaveGate, Presented, CoreUnchanged
  <1>12. CASE Occlusion BY <1>12 DEF Occlusion
  <1>13. CASE FrameReady BY <1>13 DEF FrameReady, RendererUnchanged
  <1>14. CASE DrainBegins BY <1>14 DEF DrainBegins, RendererUnchanged
  <1>15. CASE DrainHidden BY <1>15 DEF DrainHidden, RendererUnchanged, DrainRest
  <1>16. CASE DrainImage BY <1>16 DEF DrainImage, RendererUnchanged, DrainRest
  <1>17. CASE DrainNothing BY <1>17 DEF DrainNothing, RendererUnchanged, DrainRest
  <1>18. CASE DrainFrame
    <2>1. callback' # "none"
      BY <1>18, DrainTakes DEF PresentDmabuf, ArmCallback
    <2> QED BY <1>18, <2>1, DrainTakes
  <1>19. CASE InlineDraw BY <1>19 DEF InlineDraw, Schedule
  <1>20. CASE InlineDrawImage BY <1>20 DEF InlineDrawImage, RendererUnchanged
  <1>21. CASE Hide BY <1>21 DEF Hide, RendererUnchanged
  <1>22. CASE HideFinish BY <1>22 DEF HideFinish, Detach
  <1>23. CASE DetachFromTopLevel BY <1>23, NothingMoves DEF Fixed, Types
  <1>24. CASE PlatformDestroyed BY <1>24, NothingMoves DEF Fixed, Types
  <1>25. CASE ShowTopLevel
    BY <1>25 DEF ShowTopLevel, RendererUnchanged, DestroyPresenter
  <1>26. CASE ShowReattach
    <2>1. callback # "none" => callback' # "none"
      BY <1>26 DEF ShowReattach, ArmCallback
    <2> QED BY <1>26, <2>1 DEF ShowReattach, RendererUnchanged
  <1>27. CASE ShowCreate BY <1>27 DEF ShowCreate, RendererUnchanged
  <1>28. CASE ExitCloseParked BY <1>28 DEF ExitCloseParked, RendererUnchanged
  <1>29. CASE ExitWake BY <1>29 DEF ExitWake, RendererUnchanged
  <1>30. CASE ExitJoined BY <1>30 DEF ExitJoined, RendererUnchanged, DestroyPresenter
  <1>31. CASE CompositorFrame BY <1>31 DEF CompositorFrame, RendererUnchanged
  <1>32. ASSUME NEW changed \in BOOLEAN, UpdateFrame(changed) PROVE TokenInv'
    BY <1>32 DEF UpdateFrame
  <1>33. ASSUME NEW b \in Buffers, BufferReleased(b) PROVE TokenInv'
    BY <1>33 DEF BufferReleased, RendererUnchanged
  <1>34. ASSUME NEW s \in Sizes, Resize(s) PROVE TokenInv'
    BY <1>34, OnlyTheSize DEF Resize
  <1>35. ASSUME NEW s \in Sizes, Show(s) PROVE TokenInv'
    BY <1>35, OnlyTheSize DEF Show
  <1>36. ASSUME NEW b \in Buffers, CompositorRelease(b) PROVE TokenInv'
    BY <1>36 DEF CompositorRelease, RendererUnchanged
  <1>37. CASE UNCHANGED vars BY <1>37 DEF vars
  <1> QED
    BY <1>1, <1>2, <1>3, <1>4, <1>5, <1>6, <1>7, <1>8, <1>9, <1>10, <1>11, <1>12, <1>13,
       <1>14, <1>15, <1>16, <1>17, <1>18, <1>19, <1>20, <1>21, <1>22, <1>23, <1>24,
       <1>25, <1>26, <1>27, <1>28, <1>29, <1>30, <1>31, <1>32, <1>33, <1>34, <1>35,
       <1>36, <1>37
    DEF Next, Renderer, RendererPresents, Gui, Compositor, Drain, Inline, Showing, Exit

\* With one size the cache only grows, and the gate waits for the frame that was
\* shown, unless there was none or it is the same one.
LEMMA PresentInOrder ==
    ASSUME Accepted, Types, FlowInv, FrameInv, CacheInv, DrainFrame
    PROVE  /\ last' = parked /\ shown' = parked /\ cache' = cache \cup {parked}
           /\ \/ /\ awaiting' = last /\ last \notin {NoBuffer, parked} /\ inFlight' = inFlight
                 /\ retired' = (retired \cup {shown}) \ {parked, NoBuffer}
              \/ /\ awaiting' = awaiting /\ last \in {NoBuffer, parked}
                 /\ inFlight' = Decremented(inFlight)
  <1> USE DrainTakes
  <1>1. {c \in cache : SizeOf(c) = SizeOf(parked)} = cache
    BY DEF Types, Proxies, SizeOf, FrameInv
  <1>2. last \in cache \/ last = NoBuffer
    BY DEF CacheInv
  <1>3. awaiting \in cache \/ awaiting = NoBuffer
    BY DEF CacheInv
  <1>4. /\ last' = parked /\ shown' = parked /\ cache' = cache \cup {parked}
        /\ retired' = (retired \cup {shown}) \ {parked, NoBuffer}
    BY <1>1 DEF PresentDmabuf, Commit
  <1>5. CASE last \notin {NoBuffer, parked}
    BY <1>1, <1>2, <1>4, <1>5 DEF PresentDmabuf
  <1>6. CASE last \in {NoBuffer, parked}
    BY <1>1, <1>2, <1>3, <1>4, <1>6 DEF PresentDmabuf
  <1> QED BY <1>5, <1>6

\* The presenter's last buffer stays the one shown.
LEMMA CacheKept ==
    ASSUME Accepted, Fixed', Types, FlowInv, FrameInv, CacheInv, [Next]_vars
    PROVE  CacheInv'
  <1> USE DEF Types, Proxies, FlowInv, FrameInv, CacheInv, Exiting, widget, gate,
          parking, images, surfaceOf, compositor, occlusion, drawing, guiAt, rendererAt,
          bounds
  <1>1. CASE Draw BY <1>1 DEF Draw
  <1>2. CASE ChoosePath BY <1>2 DEF ChoosePath, CoreUnchanged
  <1>3. CASE HiddenReturns BY <1>3 DEF HiddenReturns, Presented, CoreUnchanged
  <1>4. CASE PresentImage BY <1>4 DEF PresentImage, Presented, CoreUnchanged, Schedule
  <1>5. CASE EnterWait BY <1>5 DEF EnterWait, CoreUnchanged
  <1>6. CASE ClaimToken BY <1>6 DEF ClaimToken, CoreUnchanged
  <1>7. CASE HiddenWhileWaiting BY <1>7 DEF HiddenWhileWaiting, Presented, CoreUnchanged
  <1>8. CASE DupFailed BY <1>8 DEF DupFailed, Presented, CoreUnchanged
  <1>9. CASE Park BY <1>9 DEF Park, CoreUnchanged
  <1>10. CASE ScheduleDrain BY <1>10 DEF ScheduleDrain, CoreUnchanged, Schedule
  <1>11. CASE LeaveGate BY <1>11 DEF LeaveGate, Presented, CoreUnchanged
  <1>12. CASE Occlusion BY <1>12 DEF Occlusion
  <1>13. CASE FrameReady BY <1>13 DEF FrameReady, RendererUnchanged
  <1>14. CASE DrainBegins BY <1>14 DEF DrainBegins, RendererUnchanged
  <1>15. CASE DrainHidden BY <1>15 DEF DrainHidden, RendererUnchanged, DrainRest
  <1>16. CASE DrainImage BY <1>16 DEF DrainImage, RendererUnchanged, DrainRest
  <1>17. CASE DrainNothing BY <1>17 DEF DrainNothing, RendererUnchanged, DrainRest
  <1>18. CASE DrainFrame
    BY <1>18, DrainTakes, PresentInOrder DEF Buffers, NoBuffer
  <1>19. CASE InlineDraw BY <1>19 DEF InlineDraw, Schedule
  <1>20. CASE InlineDrawImage BY <1>20 DEF InlineDrawImage, RendererUnchanged
  <1>21. CASE Hide BY <1>21 DEF Hide, RendererUnchanged
  <1>22. CASE HideFinish BY <1>22 DEF HideFinish, Detach, Commit
  <1>23. CASE DetachFromTopLevel
    BY <1>23 DEF DetachFromTopLevel, RendererUnchanged, Detach, Commit
  <1>24. CASE PlatformDestroyed
    BY <1>24 DEF PlatformDestroyed, RendererUnchanged, DestroyPresenter, Commit
  <1>25. CASE ShowTopLevel
    BY <1>25 DEF ShowTopLevel, RendererUnchanged, DestroyPresenter, Commit
  <1>26. CASE ShowReattach BY <1>26 DEF ShowReattach, RendererUnchanged, Commit
  <1>27. CASE ShowCreate BY <1>27 DEF ShowCreate, RendererUnchanged
  <1>28. CASE ExitCloseParked BY <1>28 DEF ExitCloseParked, RendererUnchanged
  <1>29. CASE ExitWake BY <1>29 DEF ExitWake, RendererUnchanged
  <1>30. CASE ExitJoined
    BY <1>30 DEF ExitJoined, RendererUnchanged, DestroyPresenter, Commit
  <1>31. CASE CompositorFrame BY <1>31 DEF CompositorFrame, RendererUnchanged
  <1>32. ASSUME NEW changed \in BOOLEAN, UpdateFrame(changed) PROVE CacheInv'
    BY <1>32 DEF UpdateFrame
  <1>33. ASSUME NEW b \in Buffers, BufferReleased(b) PROVE CacheInv'
    BY <1>33 DEF BufferReleased, RendererUnchanged
  <1>34. ASSUME NEW s \in Sizes, Resize(s) PROVE CacheInv'
    BY <1>34, OnlyTheSize DEF Resize
  <1>35. ASSUME NEW s \in Sizes, Show(s) PROVE CacheInv'
    BY <1>35, OnlyTheSize DEF Show
  <1>36. ASSUME NEW b \in Buffers, CompositorRelease(b) PROVE CacheInv'
    BY <1>36 DEF CompositorRelease, RendererUnchanged
  <1>37. CASE UNCHANGED vars BY <1>37 DEF vars
  <1> QED
    BY <1>1, <1>2, <1>3, <1>4, <1>5, <1>6, <1>7, <1>8, <1>9, <1>10, <1>11, <1>12, <1>13,
       <1>14, <1>15, <1>16, <1>17, <1>18, <1>19, <1>20, <1>21, <1>22, <1>23, <1>24,
       <1>25, <1>26, <1>27, <1>28, <1>29, <1>30, <1>31, <1>32, <1>33, <1>34, <1>35,
       <1>36, <1>37
    DEF Next, Renderer, RendererPresents, Gui, Compositor, Drain, Inline, Showing, Exit

\* No step loses the buffer the second wait is for. The wait itself keeps the
\* count down, so it must not be left early.
LEMMA GateKept ==
    ASSUME Accepted, Fixed', ~Timeouts, Types, FlowInv, FrameInv, TokenInv, CacheInv,
           GateInv, [Next]_vars
    PROVE  GateInv'
  <1> USE ConstantsOK
      DEF Types, Counts, Places, Proxies, FlowInv, FrameInv, CacheInv, GateInv,
          Decremented, Exiting, widget, gate, parking, images, surfaceOf, compositor,
          occlusion, drawing, guiAt, rendererAt, bounds
  <1>1. CASE Draw BY <1>1 DEF Draw
  <1>2. CASE ChoosePath BY <1>2 DEF ChoosePath, CoreUnchanged
  <1>3. CASE HiddenReturns BY <1>3 DEF HiddenReturns, Presented, CoreUnchanged
  <1>4. CASE PresentImage BY <1>4 DEF PresentImage, Presented, CoreUnchanged, Schedule
  <1>5. CASE EnterWait BY <1>5 DEF EnterWait, CoreUnchanged
  <1>6. CASE ClaimToken BY <1>6 DEF ClaimToken, CoreUnchanged
  <1>7. CASE HiddenWhileWaiting BY <1>7 DEF HiddenWhileWaiting, Presented, CoreUnchanged
  <1>8. CASE DupFailed BY <1>8 DEF DupFailed, Presented, CoreUnchanged
  <1>9. CASE Park BY <1>9, Parks DEF Park, CoreUnchanged
  <1>10. CASE ScheduleDrain BY <1>10 DEF ScheduleDrain, CoreUnchanged, Schedule
  <1>11. CASE LeaveGate BY <1>11 DEF LeaveGate, Presented, CoreUnchanged
  <1>12. CASE Occlusion BY <1>12 DEF Occlusion
  <1>13. CASE FrameReady BY <1>13 DEF FrameReady, RendererUnchanged
  <1>14. CASE DrainBegins BY <1>14 DEF DrainBegins, RendererUnchanged
  <1>15. CASE DrainHidden BY <1>15 DEF DrainHidden, RendererUnchanged, DrainRest
  <1>16. CASE DrainImage BY <1>16 DEF DrainImage, RendererUnchanged, DrainRest
  <1>17. CASE DrainNothing BY <1>17 DEF DrainNothing, RendererUnchanged, DrainRest
  <1>18. CASE DrainFrame
    <2>1. ~hidden /\ ~Exiting /\ shown = last /\ UNCHANGED <<hidden, rpc>> /\ gpc' = "idle"
      BY <1>18, DrainTakes
    <2>2. CASE /\ awaiting' = last /\ last \notin {NoBuffer, parked} /\ inFlight' = inFlight
               /\ retired' = (retired \cup {shown}) \ {parked, NoBuffer}
      BY <2>1, <2>2
    <2>3. CASE inFlight' = Decremented(inFlight)
      <3>1. inFlight' \in Nat /\ inFlight' < SwapChainCount
        BY <2>1, <2>3
      <3> QED BY <2>1, <3>1
    <2> QED BY <1>18, <2>2, <2>3, PresentInOrder
  <1>19. CASE InlineDraw BY <1>19 DEF InlineDraw, Schedule
  <1>20. CASE InlineDrawImage BY <1>20 DEF InlineDrawImage, RendererUnchanged
  <1>21. CASE Hide BY <1>21 DEF Hide, RendererUnchanged
  <1>22. CASE HideFinish BY <1>22 DEF HideFinish, Detach, Commit
  <1>23. CASE DetachFromTopLevel BY <1>23, NothingMoves DEF Fixed, Types
  <1>24. CASE PlatformDestroyed BY <1>24, NothingMoves DEF Fixed, Types
  <1>25. CASE ShowTopLevel
    BY <1>25 DEF ShowTopLevel, RendererUnchanged, DestroyPresenter, Commit
  <1>26. CASE ShowReattach
    <2>1. awaiting \in retired => awaiting \in retired'
      BY <1>26 DEF ShowReattach, Commit, Buffers, NoBuffer
    <2> QED BY <1>26, <2>1 DEF ShowReattach, RendererUnchanged
  <1>27. CASE ShowCreate BY <1>27 DEF ShowCreate, RendererUnchanged
  <1>28. CASE ExitCloseParked BY <1>28 DEF ExitCloseParked, RendererUnchanged
  <1>29. CASE ExitWake BY <1>29 DEF ExitWake, RendererUnchanged
  <1>30. CASE ExitJoined
    BY <1>30 DEF ExitJoined, RendererUnchanged, DestroyPresenter, Commit
  <1>31. CASE CompositorFrame BY <1>31 DEF CompositorFrame, RendererUnchanged
  <1>32. ASSUME NEW changed \in BOOLEAN, UpdateFrame(changed) PROVE GateInv'
    BY <1>32 DEF UpdateFrame
  <1>33. ASSUME NEW b \in Buffers, BufferReleased(b) PROVE GateInv'
    BY <1>33 DEF BufferReleased, RendererUnchanged
  <1>34. ASSUME NEW s \in Sizes, Resize(s) PROVE GateInv'
    BY <1>34, OnlyTheSize DEF Resize
  <1>35. ASSUME NEW s \in Sizes, Show(s) PROVE GateInv'
    BY <1>35, OnlyTheSize DEF Show
  <1>36. ASSUME NEW b \in Buffers, CompositorRelease(b) PROVE GateInv'
    <2>1. awaiting \in retired \cup releases => awaiting \in retired' \cup releases'
      BY <1>36 DEF CompositorRelease, Buffers, NoBuffer
    <2> QED BY <1>36, <2>1 DEF CompositorRelease, RendererUnchanged
  <1>37. CASE UNCHANGED vars BY <1>37 DEF vars
  <1> QED
    BY <1>1, <1>2, <1>3, <1>4, <1>5, <1>6, <1>7, <1>8, <1>9, <1>10, <1>11, <1>12, <1>13,
       <1>14, <1>15, <1>16, <1>17, <1>18, <1>19, <1>20, <1>21, <1>22, <1>23, <1>24,
       <1>25, <1>26, <1>27, <1>28, <1>29, <1>30, <1>31, <1>32, <1>33, <1>34, <1>35,
       <1>36, <1>37
    DEF Next, Renderer, RendererPresents, Gui, Compositor, Drain, Inline, Showing, Exit

\* The last message sent to a thread that has taken v, and a mailbox in which
\* every message is a change.
LastTold(m, v) == IF m = <<>> THEN v ELSE m[Len(m)]
Alternates(m, v) == \A i \in 1..Len(m) : m[i] # (IF i = 1 THEN v ELSE m[i - 1])

\* Only a change is sent.
LEMMA TellAlternates ==
    ASSUME NEW S, NEW m \in Seq(S), NEW v \in S, NEW w \in S, Alternates(m, v),
           LastTold(m, v) # w
    PROVE  Alternates(Append(m, w), v) /\ LastTold(Append(m, w), v) = w /\ Append(m, w) # <<>>
  <1>1. Append(m, w) # <<>> /\ LastTold(Append(m, w), v) = w
    BY DEF LastTold
  <1>2. ASSUME NEW i \in 1..Len(Append(m, w))
        PROVE  Append(m, w)[i] # (IF i = 1 THEN v ELSE Append(m, w)[i - 1])
    <2>1. CASE i \in 1..Len(m)
      BY <2>1 DEF Alternates
    <2>2. CASE i = Len(m) + 1 /\ m = <<>>
      BY <2>2 DEF LastTold
    <2>3. CASE i = Len(m) + 1 /\ m # <<>>
      <3>1. Len(m) \in Nat \ {0} /\ Append(m, w)[i] = w /\ Append(m, w)[i - 1] = m[Len(m)]
        BY <2>3
      <3> QED BY <2>3, <3>1 DEF LastTold
    <2>4. Len(Append(m, w)) = Len(m) + 1 /\ Len(m) \in Nat
      OBVIOUS
    <2> QED BY <2>1, <2>2, <2>3, <2>4
  <1> QED BY <1>1, <1>2 DEF Alternates

\* Taking a message keeps the order, and the message is a change.
LEMMA TailAlternates ==
    ASSUME NEW S, NEW m \in Seq(S), NEW v \in S, Alternates(m, v), m # <<>>
    PROVE  /\ Alternates(Tail(m), Head(m)) /\ LastTold(Tail(m), Head(m)) = LastTold(m, v)
           /\ Head(m) # v
  <1>1. /\ Len(m) \in Nat \ {0} /\ Len(Tail(m)) = Len(m) - 1 /\ Head(m) = m[1]
        /\ \A i \in 1..Len(Tail(m)) : Tail(m)[i] = m[i + 1]
    OBVIOUS
  <1>0. Tail(m) = <<>> <=> Len(Tail(m)) = 0
    BY Tail(m) \in Seq(S), EmptySeq
  <1>2. Head(m) # v
    BY <1>1 DEF Alternates
  <1>3. LastTold(Tail(m), Head(m)) = LastTold(m, v)
    <2>1. CASE Len(m) = 1
      <3>1. Tail(m) = <<>>
        BY <1>0, <1>1, <2>1
      <3> QED BY <1>1, <2>1, <3>1 DEF LastTold
    <2>2. CASE Len(m) # 1
      <3>1. Tail(m) # <<>> /\ Tail(m)[Len(Tail(m))] = m[Len(m)]
        BY <1>0, <1>1, <2>2
      <3> QED BY <3>1 DEF LastTold
    <2> QED BY <2>1, <2>2
  <1>4. ASSUME NEW i \in 1..Len(Tail(m))
        PROVE  Tail(m)[i] # (IF i = 1 THEN Head(m) ELSE Tail(m)[i - 1])
    <2>1. Tail(m)[i] = m[i + 1] /\ m[i + 1] # m[i]
      BY <1>1 DEF Alternates
    <2>2. (IF i = 1 THEN Head(m) ELSE Tail(m)[i - 1]) = m[i]
      BY <1>1
    <2> QED BY <2>1, <2>2
  <1> QED BY <1>2, <1>3, <1>4 DEF Alternates

\* The renderer is told of changes only, and was last told that a surface is
\* visible unless it is hidden.
OrderInv ==
    /\ Alternates(mail, visible)
    /\ ~hidden => LastTold(mail, visible) = TRUE

\* ghostty_surface_set_occlusion.
LEMMA Telling ==
    ASSUME Types, Alternates(mail, visible), NEW v \in BOOLEAN, Tell(v),
           UNCHANGED visible
    PROVE  /\ Alternates(mail', visible') /\ LastTold(mail', visible') = v
           /\ Told # v => mail' # <<>>
  <1>1. visible \in BOOLEAN /\ mail \in Seq(BOOLEAN)
    BY DEF Types, Flags
  <1>2. LastTold(mail, visible) = Told
    BY Zenon DEF LastTold, Told
  <1>3. CASE Told = v
    <2>1. mail' = mail
      BY <1>3, Zenon DEF Tell
    <2> QED BY <2>1, <1>2, <1>3, Zenon
  <1>4. CASE Told # v
    <2>1. mail' = Append(mail, v)
      BY <1>4, Zenon DEF Tell
    <2>2. /\ Alternates(Append(mail, v), visible) /\ LastTold(Append(mail, v), visible) = v
          /\ Append(mail, v) # <<>>
      <3>1. LastTold(mail, visible) # v
        BY <1>2, <1>4, Zenon
      <3> QED BY <1>1, <3>1, TellAlternates
    <2> QED BY <2>1, <2>2, Zenon
  <1> QED BY <1>3, <1>4, Zenon

\* A Show event leaves a message: the renderer had been told of a hidden surface.
LEMMA ShowTells ==
    ASSUME Types, FlowInv, OrderInv, NEW s \in Sizes, Show(s)
    PROVE  /\ Alternates(mail', visible') /\ LastTold(mail', visible') = TRUE
           /\ mail' # <<>>
  <1>1. presenter
    <2>1. gpc = "idle"
      BY DEF Show
    <2> QED BY <2>1 DEF FlowInv
  <1>2. Tell(TRUE) /\ UNCHANGED visible /\ ~Told
    BY <1>1, Zenon DEF Show
  <1>3. Told # TRUE
    BY <1>2, Zenon
  <1>4. Alternates(mail, visible)
    BY Zenon DEF OrderInv
  <1>5. TRUE \in BOOLEAN
    OBVIOUS
  <1> QED BY <1>2, <1>3, <1>4, <1>5, Telling, Zenon

\* The message that ends a hidden time wakes the renderer to draw.
LEMMA OcclusionTakes ==
    ASSUME Types, OrderInv, Occlusion
    PROVE  /\ Alternates(mail', visible') /\ LastTold(mail', visible') = LastTold(mail, visible)
           /\ ~hidden /\ mail' = <<>> => rpc' = "woken"
  <1>1. mail' = Tail(mail) /\ visible' = Head(mail) /\ mail # <<>>
    BY Zenon DEF Occlusion
  <1>2. visible \in BOOLEAN /\ mail \in Seq(BOOLEAN)
    BY DEF Types, Flags
  <1>3. Alternates(mail, visible)
    BY Zenon DEF OrderInv
  <1>4. /\ Alternates(Tail(mail), Head(mail))
        /\ LastTold(Tail(mail), Head(mail)) = LastTold(mail, visible)
        /\ Head(mail) # visible
    BY <1>1, <1>2, <1>3, TailAlternates
  <1>5. ASSUME ~hidden, mail' = <<>> PROVE rpc' = "woken"
    <2>1. LastTold(mail', visible') = visible'
      BY <1>5, Zenon DEF LastTold
    <2>2. LastTold(mail, visible) = TRUE
      BY <1>5, Zenon DEF OrderInv
    <2>3. Head(mail) = TRUE
      BY <1>1, <1>4, <2>1, <2>2, Zenon
    <2>4. ~visible
      BY <1>2, <1>4, <2>3, Zenon
    <2> QED BY <2>3, <2>4, Zenon DEF Occlusion
  <1> QED BY <1>1, <1>4, <1>5, Zenon

\* The order of the messages.
LEMMA OrderKept ==
    ASSUME Accepted, Fixed', Types, FlowInv, CacheInv, OrderInv, [Next]_vars
    PROVE  OrderInv'
  <1> USE DEF OrderInv, widget, gate, parking, images, surfaceOf, compositor, occlusion,
          drawing, guiAt, rendererAt, bounds
  <1>1. CASE Draw BY <1>1 DEF Draw
  <1>2. CASE ChoosePath BY <1>2 DEF ChoosePath, CoreUnchanged
  <1>3. CASE HiddenReturns BY <1>3 DEF HiddenReturns, CoreUnchanged
  <1>4. CASE PresentImage BY <1>4 DEF PresentImage, CoreUnchanged, Schedule
  <1>5. CASE EnterWait BY <1>5 DEF EnterWait, CoreUnchanged
  <1>6. CASE ClaimToken BY <1>6 DEF ClaimToken, CoreUnchanged
  <1>7. CASE HiddenWhileWaiting BY <1>7 DEF HiddenWhileWaiting, CoreUnchanged
  <1>8. CASE DupFailed BY <1>8 DEF DupFailed, CoreUnchanged
  <1>9. CASE Park BY <1>9 DEF Park, CoreUnchanged
  <1>10. CASE ScheduleDrain BY <1>10 DEF ScheduleDrain, CoreUnchanged, Schedule
  <1>11. CASE LeaveGate BY <1>11 DEF LeaveGate, CoreUnchanged
  <1>12. CASE Occlusion
    <2>1. UNCHANGED hidden
      BY <1>12, Zenon DEF Occlusion
    <2> QED BY <1>12, <2>1, OcclusionTakes, Zenon
  <1>13. CASE FrameReady BY <1>13 DEF FrameReady, RendererUnchanged
  <1>14. CASE DrainBegins BY <1>14 DEF DrainBegins, RendererUnchanged
  <1>15. CASE DrainHidden BY <1>15 DEF DrainHidden, RendererUnchanged, DrainRest
  <1>16. CASE DrainImage BY <1>16 DEF DrainImage, RendererUnchanged, DrainRest
  <1>17. CASE DrainNothing BY <1>17 DEF DrainNothing, RendererUnchanged, DrainRest
  <1>18. CASE DrainFrame BY <1>18 DEF DrainFrame, RendererUnchanged, DrainRest
  <1>19. CASE InlineDraw BY <1>19 DEF InlineDraw, Schedule
  <1>20. CASE InlineDrawImage BY <1>20 DEF InlineDrawImage, RendererUnchanged
  <1>21. CASE Hide BY <1>21 DEF Hide, RendererUnchanged
  <1>22. CASE HideFinish
    <2>1. UNCHANGED <<hidden, visible>> /\ Tell(FALSE)
      BY <1>22, Zenon DEF HideFinish
    <2>2. hidden
      BY <1>22 DEF HideFinish, CacheInv
    <2>3. FALSE \in BOOLEAN
      OBVIOUS
    <2> QED BY <2>1, <2>2, <2>3, Telling, Zenon
  <1>23. CASE DetachFromTopLevel BY <1>23, NothingMoves DEF Fixed, Types
  <1>24. CASE PlatformDestroyed BY <1>24, NothingMoves DEF Fixed, Types
  <1>25. CASE ShowTopLevel
    BY <1>25 DEF ShowTopLevel, RendererUnchanged, DestroyPresenter
  <1>26. CASE ShowReattach BY <1>26 DEF ShowReattach, RendererUnchanged
  <1>27. CASE ShowCreate BY <1>27 DEF ShowCreate, RendererUnchanged
  <1>28. CASE ExitCloseParked BY <1>28 DEF ExitCloseParked, RendererUnchanged
  <1>29. CASE ExitWake BY <1>29 DEF ExitWake, RendererUnchanged
  <1>30. CASE ExitJoined BY <1>30 DEF ExitJoined, RendererUnchanged, DestroyPresenter
  <1>31. CASE CompositorFrame BY <1>31 DEF CompositorFrame, RendererUnchanged
  <1>32. ASSUME NEW changed \in BOOLEAN, UpdateFrame(changed) PROVE OrderInv'
    BY <1>32 DEF UpdateFrame
  <1>33. ASSUME NEW b \in Buffers, BufferReleased(b) PROVE OrderInv'
    BY <1>33 DEF BufferReleased, RendererUnchanged
  <1>34. ASSUME NEW s \in Sizes, Resize(s) PROVE OrderInv'
    BY <1>34 DEF Resize, RendererUnchanged
  <1>35. ASSUME NEW s \in Sizes, Show(s) PROVE OrderInv'
    BY <1>35, ShowTells, Zenon
  <1>36. ASSUME NEW b \in Buffers, CompositorRelease(b) PROVE OrderInv'
    BY <1>36 DEF CompositorRelease, RendererUnchanged
  <1>37. CASE UNCHANGED vars BY <1>37 DEF vars
  <1> QED
    BY <1>1, <1>2, <1>3, <1>4, <1>5, <1>6, <1>7, <1>8, <1>9, <1>10, <1>11, <1>12, <1>13,
       <1>14, <1>15, <1>16, <1>17, <1>18, <1>19, <1>20, <1>21, <1>22, <1>23, <1>24,
       <1>25, <1>26, <1>27, <1>28, <1>29, <1>30, <1>31, <1>32, <1>33, <1>34, <1>35,
       <1>36, <1>37
    DEF Next, Renderer, RendererPresents, Gui, Compositor, Drain, Inline, Showing, Exit

\* The last target has the newest cells unless they were rebuilt since, or the
\* swap chain was given up; before the first presentation nothing is parked.
FreshInv ==
    /\ rpc \in Presenting => ~rebuilt /\ chain /\ pix[slots[rframe]] = cells
    /\ rpc \notin Presenting /\ ~rebuilt /\ chain /\ lastTarget # NoSlot
       => pix[slots[lastTarget]] = cells
    /\ lastTarget = NoSlot /\ rpc \notin {"schedule", "wait2"}
       => parked = NoBuffer /\ last = NoBuffer

\* A visible renderer between presentations that has nothing to draw.
Settled ==
    /\ ~hidden /\ ~Exiting /\ mail = <<>> /\ ~rebuilt
    /\ rpc \in {"idle", "schedule", "wait2"}

\* Then what is parked, or else what was last presented, has the newest cells.
SettledInv ==
    Settled => /\ parked # NoBuffer => pix[parked] = cells
               /\ parked = NoBuffer /\ last # NoBuffer => pix[last] = cells

\* A target that is drawn gets the newest cells.
LEMMA RedrawsFresh ==
    ASSUME Types, Redraw
    PROVE  pix'[slots'[NextSlot]] = cells /\ chain' /\ ~rebuilt'
  <1>1. NextSlot \in Slots
    BY NextSlotIn DEF Types, Targets
  <1>2. PICK b \in Buffers : /\ slots' = [slots EXCEPT ![NextSlot] = b]
                             /\ pix' = [pix EXCEPT ![b] = cells]
    BY DEF Redraw
  <1>3. pix'[slots'[NextSlot]] = cells
    BY <1>1, <1>2 DEF Types, Targets
  <1> QED BY <1>3, Zenon DEF Redraw

\* The contents of the targets.
LEMMA FreshKept ==
    ASSUME Accepted, Fixed', Types, FlowInv, FrameInv, FreshInv, [Next]_vars
    PROVE  FreshInv'
  <1> USE ConstantsOK
      DEF FrameInv, FlowInv, FreshInv, Types, Places, Targets, Slots, NoSlot,
          Presenting, widget, gate, parking, images, surfaceOf, compositor, occlusion,
          drawing, guiAt, rendererAt, bounds
  <1>1. CASE Draw
    <2>1. UNCHANGED <<cells, lastTarget, parked, last>> /\ rpc = "draw"
      BY <1>1, Zenon DEF Draw
    <2>2. CASE Redraw /\ rpc' = "present" /\ rframe' = NextSlot
      BY <2>1, <2>2, RedrawsFresh
    <2>3. CASE /\ ~NeedsRedraw(FALSE) /\ lastTarget # NoSlot
               /\ rpc' = "present" /\ rframe' = lastTarget
               /\ UNCHANGED <<rebuilt, chain, slots, pix>>
      BY <2>1, <2>3 DEF NeedsRedraw
    <2>4. CASE lastTarget = NoSlot /\ rpc' = "idle" /\ UNCHANGED <<rebuilt, chain, slots, pix>>
      BY <2>1, <2>4
    <2> QED BY <1>1, <2>2, <2>3, <2>4, Zenon DEF Draw
  <1>2. CASE ChoosePath BY <1>2 DEF ChoosePath, CoreUnchanged
  <1>3. CASE HiddenReturns BY <1>3 DEF HiddenReturns, Presented, CoreUnchanged
  <1>4. CASE PresentImage BY <1>4 DEF PresentImage, Presented, CoreUnchanged, Schedule
  <1>5. CASE EnterWait BY <1>5 DEF EnterWait, CoreUnchanged
  <1>6. CASE ClaimToken BY <1>6 DEF ClaimToken, CoreUnchanged
  <1>7. CASE HiddenWhileWaiting BY <1>7 DEF HiddenWhileWaiting, Presented, CoreUnchanged
  <1>8. CASE DupFailed BY <1>8 DEF DupFailed, Presented, CoreUnchanged
  <1>9. CASE Park BY <1>9 DEF Park, CoreUnchanged
  <1>10. CASE ScheduleDrain BY <1>10 DEF ScheduleDrain, CoreUnchanged, Schedule
  <1>11. CASE LeaveGate BY <1>11 DEF LeaveGate, Presented, CoreUnchanged
  <1>12. CASE Occlusion
    <2>1. UNCHANGED <<cells, rebuilt, pix, lastTarget, parked, last>> /\ rpc = "idle"
          /\ rpc' \in {"woken", "idle"}
      BY <1>12, Zenon DEF Occlusion
    <2>2. chain' = FALSE \/ UNCHANGED <<chain, slots>>
      BY <1>12, Zenon DEF Occlusion
    <2> QED BY <2>1, <2>2
  <1>13. CASE FrameReady BY <1>13 DEF FrameReady, RendererUnchanged
  <1>14. CASE DrainBegins BY <1>14 DEF DrainBegins, RendererUnchanged
  <1>15. CASE DrainHidden BY <1>15 DEF DrainHidden, RendererUnchanged, DrainRest
  <1>16. CASE DrainImage BY <1>16 DEF DrainImage, RendererUnchanged, DrainRest
  <1>17. CASE DrainNothing BY <1>17 DEF DrainNothing, RendererUnchanged, DrainRest
  <1>18. CASE DrainFrame
    <2>1. parked # NoBuffer /\ parked' = NoBuffer
          /\ UNCHANGED <<rebuilt, chain, pix, slots, cells, rpc, rframe, lastTarget>>
      BY <1>18, DrainTakes DEF Buffers, NoBuffer
    <2> QED BY <2>1
  <1>19. CASE InlineDraw BY <1>19 DEF InlineDraw, Schedule
  <1>20. CASE InlineDrawImage BY <1>20 DEF InlineDrawImage, RendererUnchanged
  <1>21. CASE Hide BY <1>21 DEF Hide, RendererUnchanged
  <1>22. CASE HideFinish BY <1>22 DEF HideFinish
  <1>23. CASE DetachFromTopLevel BY <1>23, NothingMoves DEF Fixed, Types
  <1>24. CASE PlatformDestroyed BY <1>24, NothingMoves DEF Fixed, Types
  <1>25. CASE ShowTopLevel
    BY <1>25 DEF ShowTopLevel, RendererUnchanged, DestroyPresenter
  <1>26. CASE ShowReattach BY <1>26 DEF ShowReattach, RendererUnchanged
  <1>27. CASE ShowCreate BY <1>27 DEF ShowCreate, RendererUnchanged
  <1>28. CASE ExitCloseParked BY <1>28 DEF ExitCloseParked, RendererUnchanged
  <1>29. CASE ExitWake BY <1>29 DEF ExitWake, RendererUnchanged
  <1>30. CASE ExitJoined BY <1>30 DEF ExitJoined, RendererUnchanged, DestroyPresenter
  <1>31. CASE CompositorFrame BY <1>31 DEF CompositorFrame, RendererUnchanged
  <1>32. ASSUME NEW changed \in BOOLEAN, UpdateFrame(changed) PROVE FreshInv'
    BY <1>32 DEF UpdateFrame
  <1>33. ASSUME NEW b \in Buffers, BufferReleased(b) PROVE FreshInv'
    BY <1>33 DEF BufferReleased, RendererUnchanged
  <1>34. ASSUME NEW s \in Sizes, Resize(s) PROVE FreshInv'
    BY <1>34 DEF Resize, RendererUnchanged
  <1>35. ASSUME NEW s \in Sizes, Show(s) PROVE FreshInv'
    BY <1>35 DEF Show
  <1>36. ASSUME NEW b \in Buffers, CompositorRelease(b) PROVE FreshInv'
    BY <1>36 DEF CompositorRelease, RendererUnchanged
  <1>37. CASE UNCHANGED vars BY <1>37 DEF vars
  <1> QED
    BY <1>1, <1>2, <1>3, <1>4, <1>5, <1>6, <1>7, <1>8, <1>9, <1>10, <1>11, <1>12, <1>13,
       <1>14, <1>15, <1>16, <1>17, <1>18, <1>19, <1>20, <1>21, <1>22, <1>23, <1>24,
       <1>25, <1>26, <1>27, <1>28, <1>29, <1>30, <1>31, <1>32, <1>33, <1>34, <1>35,
       <1>36, <1>37
    DEF Next, Renderer, RendererPresents, Gui, Compositor, Drain, Inline, Showing, Exit

\* The contents of the last frame. A frame dropped while the surface was hidden
\* does no harm: a message on its way, or the swap chain given up, makes the
\* renderer draw again before it settles.
LEMMA SettledKept ==
    ASSUME Accepted, Fixed', ~DupFails, Types, FlowInv, FrameInv, CacheInv, OrderInv,
           FreshInv, SettledInv, [Next]_vars
    PROVE  SettledInv'
  <1> USE DEF SettledInv, Settled, Exiting, FlowInv, FrameInv, Types, Places,
          Presenting, widget, gate, parking, images, surfaceOf, compositor, occlusion,
          drawing, guiAt, rendererAt, bounds
  <1>1. CASE Draw
    <2>1. CASE rpc' = "present"
      BY <2>1
    <2>2. CASE /\ lastTarget = NoSlot /\ rpc' = "idle"
               /\ UNCHANGED <<rebuilt, chain, slots, index, made, sizeOf, pix>>
      <3>1. UNCHANGED <<parked, last>> /\ rpc = "draw"
        BY <1>1, Zenon DEF Draw
      <3>2. parked = NoBuffer /\ last = NoBuffer
        BY <2>2, <3>1 DEF FreshInv
      <3> QED BY <3>1, <3>2
    <2> QED BY <1>1, <2>1, <2>2, Zenon DEF Draw
  <1>2. CASE ChoosePath BY <1>2 DEF ChoosePath, CoreUnchanged
  <1>3. CASE HiddenReturns BY <1>3 DEF HiddenReturns, Presented, CoreUnchanged
  <1>4. CASE PresentImage BY <1>4 DEF PresentImage, Presented, CoreUnchanged, Schedule
  <1>5. CASE EnterWait BY <1>5 DEF EnterWait, CoreUnchanged
  <1>6. CASE ClaimToken BY <1>6 DEF ClaimToken, CoreUnchanged
  <1>7. CASE HiddenWhileWaiting BY <1>7 DEF HiddenWhileWaiting, Presented, CoreUnchanged
  <1>8. CASE DupFailed BY <1>8 DEF DupFailed, Presented, CoreUnchanged
  <1>9. CASE Park
    <2>1. parked' = slots[rframe]
      BY <1>9 DEF Park, Exported
    <2>2. pix[slots[rframe]] = cells
      BY <1>9 DEF Park, FreshInv
    <2> QED BY <1>9, <2>1, <2>2, Parks DEF Park, CoreUnchanged
  <1>10. CASE ScheduleDrain BY <1>10 DEF ScheduleDrain, CoreUnchanged, Schedule
  <1>11. CASE LeaveGate BY <1>11 DEF LeaveGate, Presented, CoreUnchanged
  <1>12. CASE Occlusion
    <2>1. UNCHANGED <<hidden, gpc, cells, rebuilt, pix, parked, last>> /\ rpc = "idle"
      BY <1>12, Zenon DEF Occlusion
    <2>2. rpc' \in {"woken", "idle"}
      BY <1>12, Zenon DEF Occlusion
    <2> QED BY <1>12, <2>1, <2>2, OcclusionTakes
  <1>13. CASE FrameReady BY <1>13 DEF FrameReady, RendererUnchanged
  <1>14. CASE DrainBegins BY <1>14 DEF DrainBegins, RendererUnchanged
  <1>15. CASE DrainHidden BY <1>15 DEF DrainHidden, RendererUnchanged, DrainRest
  <1>16. CASE DrainImage BY <1>16 DEF DrainImage, RendererUnchanged, DrainRest
  <1>17. CASE DrainNothing BY <1>17 DEF DrainNothing, RendererUnchanged, DrainRest
  <1>18. CASE DrainFrame
    <2>1. last' = parked /\ parked' = NoBuffer /\ parked # NoBuffer
      BY <1>18, DrainTakes, PresentInOrder DEF Buffers, NoBuffer
    <2>2. ~hidden /\ ~Exiting /\ UNCHANGED <<hidden, mail, rebuilt, rpc, pix, cells>>
      BY <1>18, DrainTakes
    <2> QED BY <2>1, <2>2
  <1>19. CASE InlineDraw BY <1>19 DEF InlineDraw, Schedule
  <1>20. CASE InlineDrawImage BY <1>20 DEF InlineDrawImage, RendererUnchanged
  <1>21. CASE Hide BY <1>21 DEF Hide, RendererUnchanged
  <1>22. CASE HideFinish
    <2>1. hidden'
      BY <1>22 DEF HideFinish, CacheInv
    <2> QED BY <2>1
  <1>23. CASE DetachFromTopLevel BY <1>23, NothingMoves DEF Fixed, Types
  <1>24. CASE PlatformDestroyed BY <1>24, NothingMoves DEF Fixed, Types
  <1>25. CASE ShowTopLevel
    BY <1>25 DEF ShowTopLevel, RendererUnchanged, DestroyPresenter
  <1>26. CASE ShowReattach BY <1>26 DEF ShowReattach, RendererUnchanged
  <1>27. CASE ShowCreate BY <1>27 DEF ShowCreate, RendererUnchanged
  <1>28. CASE ExitCloseParked BY <1>28 DEF ExitCloseParked, RendererUnchanged
  <1>29. CASE ExitWake BY <1>29 DEF ExitWake, RendererUnchanged
  <1>30. CASE ExitJoined BY <1>30 DEF ExitJoined, RendererUnchanged, DestroyPresenter
  <1>31. CASE CompositorFrame BY <1>31 DEF CompositorFrame, RendererUnchanged
  <1>32. ASSUME NEW changed \in BOOLEAN, UpdateFrame(changed) PROVE SettledInv'
    BY <1>32 DEF UpdateFrame
  <1>33. ASSUME NEW b \in Buffers, BufferReleased(b) PROVE SettledInv'
    BY <1>33 DEF BufferReleased, RendererUnchanged
  <1>34. ASSUME NEW s \in Sizes, Resize(s) PROVE SettledInv'
    BY <1>34, OnlyTheSize DEF Resize
  <1>35. ASSUME NEW s \in Sizes, Show(s) PROVE SettledInv'
    BY <1>35, ShowTells
  <1>36. ASSUME NEW b \in Buffers, CompositorRelease(b) PROVE SettledInv'
    BY <1>36 DEF CompositorRelease, RendererUnchanged
  <1>37. CASE UNCHANGED vars BY <1>37 DEF vars
  <1> QED
    BY <1>1, <1>2, <1>3, <1>4, <1>5, <1>6, <1>7, <1>8, <1>9, <1>10, <1>11, <1>12, <1>13,
       <1>14, <1>15, <1>16, <1>17, <1>18, <1>19, <1>20, <1>21, <1>22, <1>23, <1>24,
       <1>25, <1>26, <1>27, <1>28, <1>29, <1>30, <1>31, <1>32, <1>33, <1>34, <1>35,
       <1>36, <1>37
    DEF Next, Renderer, RendererPresents, Gui, Compositor, Drain, Inline, Showing, Exit

\* The model's counts of events.
Grow == moves' >= moves /\ teardowns' >= teardowns /\ resizes' >= resizes

\* What has happened once has happened ever since.
LEMMA CountersGrow ==
    ASSUME Counts, [Next]_vars
    PROVE  Grow
  <1> USE DEF Grow, Counts, widget, gate, parking, images, surfaceOf, compositor,
          occlusion, drawing, guiAt, rendererAt, bounds
  <1>1. CASE Draw BY <1>1 DEF Draw
  <1>2. CASE ChoosePath BY <1>2 DEF ChoosePath, CoreUnchanged
  <1>3. CASE HiddenReturns BY <1>3 DEF HiddenReturns, CoreUnchanged
  <1>4. CASE PresentImage BY <1>4 DEF PresentImage, CoreUnchanged
  <1>5. CASE EnterWait BY <1>5 DEF EnterWait, CoreUnchanged
  <1>6. CASE ClaimToken BY <1>6 DEF ClaimToken, CoreUnchanged
  <1>7. CASE HiddenWhileWaiting BY <1>7 DEF HiddenWhileWaiting, CoreUnchanged
  <1>8. CASE DupFailed BY <1>8 DEF DupFailed, CoreUnchanged
  <1>9. CASE Park BY <1>9 DEF Park, CoreUnchanged
  <1>10. CASE ScheduleDrain BY <1>10 DEF ScheduleDrain, CoreUnchanged
  <1>11. CASE LeaveGate BY <1>11 DEF LeaveGate, CoreUnchanged
  <1>12. CASE Occlusion
    <2>1. UNCHANGED <<moves, teardowns, resizes>>
      BY <1>12, Zenon DEF Occlusion
    <2> QED BY <2>1
  <1>13. CASE FrameReady BY <1>13 DEF FrameReady, RendererUnchanged
  <1>14. CASE DrainBegins BY <1>14 DEF DrainBegins, RendererUnchanged
  <1>15. CASE DrainHidden BY <1>15 DEF DrainHidden, RendererUnchanged, DrainRest
  <1>16. CASE DrainImage BY <1>16 DEF DrainImage, RendererUnchanged, DrainRest
  <1>17. CASE DrainNothing BY <1>17 DEF DrainNothing, RendererUnchanged, DrainRest
  <1>18. CASE DrainFrame BY <1>18 DEF DrainFrame, RendererUnchanged, DrainRest
  <1>19. CASE InlineDraw BY <1>19 DEF InlineDraw
  <1>20. CASE InlineDrawImage BY <1>20 DEF InlineDrawImage, RendererUnchanged
  <1>21. CASE Hide BY <1>21 DEF Hide, RendererUnchanged
  <1>22. CASE HideFinish BY <1>22 DEF HideFinish
  <1>23. CASE DetachFromTopLevel BY <1>23 DEF DetachFromTopLevel, RendererUnchanged
  <1>24. CASE PlatformDestroyed BY <1>24 DEF PlatformDestroyed, RendererUnchanged
  <1>25. CASE ShowTopLevel BY <1>25 DEF ShowTopLevel, RendererUnchanged
  <1>26. CASE ShowReattach BY <1>26 DEF ShowReattach, RendererUnchanged
  <1>27. CASE ShowCreate BY <1>27 DEF ShowCreate, RendererUnchanged
  <1>28. CASE ExitCloseParked BY <1>28 DEF ExitCloseParked, RendererUnchanged
  <1>29. CASE ExitWake BY <1>29 DEF ExitWake, RendererUnchanged
  <1>30. CASE ExitJoined BY <1>30 DEF ExitJoined, RendererUnchanged
  <1>31. CASE CompositorFrame BY <1>31 DEF CompositorFrame, RendererUnchanged
  <1>32. ASSUME NEW changed \in BOOLEAN, UpdateFrame(changed) PROVE Grow
    BY <1>32 DEF UpdateFrame
  <1>33. ASSUME NEW b \in Buffers, BufferReleased(b) PROVE Grow
    BY <1>33 DEF BufferReleased, RendererUnchanged
  <1>34. ASSUME NEW s \in Sizes, Resize(s) PROVE Grow
    BY <1>34 DEF Resize, RendererUnchanged
  <1>35. ASSUME NEW s \in Sizes, Show(s) PROVE Grow
    BY <1>35 DEF Show
  <1>36. ASSUME NEW b \in Buffers, CompositorRelease(b) PROVE Grow
    BY <1>36 DEF CompositorRelease, RendererUnchanged
  <1>37. CASE UNCHANGED vars BY <1>37 DEF vars
  <1> QED
    BY <1>1, <1>2, <1>3, <1>4, <1>5, <1>6, <1>7, <1>8, <1>9, <1>10, <1>11, <1>12, <1>13,
       <1>14, <1>15, <1>16, <1>17, <1>18, <1>19, <1>20, <1>21, <1>22, <1>23, <1>24,
       <1>25, <1>26, <1>27, <1>28, <1>29, <1>30, <1>31, <1>32, <1>33, <1>34, <1>35,
       <1>36, <1>37
    DEF Next, Renderer, RendererPresents, Gui, Compositor, Drain, Inline, Showing, Exit

\* The parts of the type invariant together.
LEMMA TypesKept ==
    ASSUME Reserved, Types, [Next]_vars
    PROVE  Types'
  BY PlacesKept, FlagsKept, MailKept, CountsKept, ProxiesKept, TargetsKept DEF Types

\* The initial states.
LEMMA FlowInit ==
    ASSUME ~LateShow, Init
    PROVE  FlowInv
  <1> USE DEF Init
  <1>1. presenter /\ useSubsurface /\ ~imagePending /\ ~moved /\ ~drainScheduled
    BY Zenon
  <1>2. rpc = "idle" /\ gpc = "idle" /\ parked = NoBuffer
    OBVIOUS
  <1> QED BY <1>1, <1>2 DEF FlowInv

LEMMA FrameInit ==
    ASSUME Init
    PROVE  FrameInv /\ TokenInv /\ CacheInv
  <1> USE DEF Init
  <1>1. gpc = "idle" /\ rpc = "idle" /\ gret = "idle"
        /\ parked = NoBuffer /\ last = NoBuffer /\ awaiting = NoBuffer
        /\ shown = NoBuffer /\ lastTarget = NoSlot /\ screen = size
        /\ sizeOf = [b \in Buffers |-> size]
    OBVIOUS
  <1>2. ready /\ ~hidden
    BY Zenon
  <1> QED BY <1>1, <1>2 DEF FrameInv, TokenInv, CacheInv, Presenting

LEMMA GateInit ==
    ASSUME Init
    PROVE  GateInv
  BY ConstantsOK DEF Init, GateInv, Exiting

LEMMA FreshInit ==
    ASSUME Init
    PROVE  OrderInv /\ FreshInv /\ SettledInv
  <1> USE DEF Init
  <1>1. /\ mail = <<>> /\ rpc = "idle"
        /\ parked = NoBuffer /\ last = NoBuffer /\ lastTarget = NoSlot
    OBVIOUS
  <1>2. visible = TRUE
    BY Zenon
  <1>3. Alternates(mail, visible)
    BY <1>1 DEF Alternates
  <1>4. LastTold(mail, visible) = TRUE
    BY <1>1, <1>2, Zenon DEF LastTold
  <1>5. OrderInv
    BY <1>3, <1>4, Zenon DEF OrderInv
  <1> QED BY <1>1, <1>5 DEF FreshInv, SettledInv, Settled, Presenting

\* While the widget keeps its windows, and has had its subsurface from the first
\* frame, a parked frame is always one a drain is coming for
\* (GhosttySurface.cpp:2459-2463).
THEOREM ParkedFramesDrained ==
    ASSUME ~LateShow, Reserved
    PROVE  Init_Next => [](Still => ParkedIsDrained)
  <1> DEFINE Kept == Types /\ (Still => FlowInv)
  <1>1. Init => Kept
    BY TypesInit, FlowInit
  <1>2. ASSUME Kept, [Next]_vars PROVE Kept'
    <2>1. Types'
      BY <1>2, TypesKept
    <2>2. Still' => Still
      BY <1>2, CountersGrow DEF Grow, Still, Types, Counts
    <2>3. ASSUME Still' PROVE FlowInv'
      BY <1>2, <2>2, <2>3, FlowKept DEF Types
    <2> QED BY <2>1, <2>3
  <1>3. Kept => (Still => ParkedIsDrained)
    <2> SUFFICES ASSUME FlowInv, parked # NoBuffer, presenter PROVE DrainComes
      BY Zenon DEF ParkedIsDrained
    <2> QED BY DEF FlowInv, DrainComes
  <1> HIDE DEF Kept
  <1> QED BY <1>1, <1>2, <1>3, PTL DEF Init_Next

\* What the promises about the two waits and the contents rest on.
CalmInv == FlowInv /\ FrameInv /\ TokenInv /\ CacheInv
\* A typed state, and an undisturbed surface in the state CalmInv describes.
Calm == Types /\ (Fixed => CalmInv)

\* A surface that has been left alone had been left alone before.
LEMMA FixedBefore ==
    ASSUME Types, [Next]_vars, Fixed'
    PROVE  Fixed /\ Still'
  BY CountersGrow DEF Grow, Fixed, Still, Types, Counts

\* It is inductive.
LEMMA CalmKept ==
    ASSUME ~LateShow, Accepted, Reserved
    PROVE  /\ Init => Calm
           /\ Calm /\ [Next]_vars => Calm'
  <1>1. Init => Calm
    BY TypesInit, FlowInit, FrameInit DEF Calm, CalmInv
  <1>2. ASSUME Calm, [Next]_vars PROVE Calm'
    <2>1. Types /\ Types'
      BY <1>2, TypesKept DEF Calm
    <2>2. ASSUME Fixed' PROVE CalmInv'
      <3>1. CalmInv /\ Still'
        BY <1>2, <2>1, <2>2, FixedBefore DEF Calm
      <3>2. FlowInv' /\ FrameInv' /\ TokenInv'
        BY <1>2, <2>1, <2>2, <3>1, FlowKept, FrameKept, TokenKept DEF CalmInv, Types
      <3>3. CacheInv'
        BY <1>2, <2>1, <2>2, <3>1, CacheKept DEF CalmInv
      <3> QED BY <3>2, <3>3 DEF CalmInv
    <2> QED BY <2>1, <2>2 DEF Calm
  <1> QED BY <1>1, <1>2

\* If the size stays too, the compositor takes the format and no import fails, a
\* renderer in the first wait waits for a token that is under way, also if waits
\* time out.
THEOREM TokensCome ==
    ASSUME ~LateShow, Accepted, Reserved
    PROVE  Init_Next => [](Fixed => TokenComes)
  <1>1. Calm => (Fixed => TokenComes)
    <2> SUFFICES ASSUME CalmInv, rpc = "wait1", ~ready
                 PROVE  callback # "none" \/ DrainComes
      BY Zenon DEF TokenComes, Calm
    <2> QED BY DEF CalmInv, TokenInv, FlowInv, DrainComes, Exiting
  <1> QED BY <1>1, CalmKept, PTL DEF Init_Next

\* A renderer in the second wait waits for a buffer that is under way, on such a
\* surface, if no wait ever times out.
THEOREM BuffersCome ==
    ASSUME ~LateShow, Accepted, Reserved, ~Timeouts
    PROVE  Init_Next => [](Fixed => BufferComes)
  <1> DEFINE Gated == Fixed => GateInv
  <1>1. Init => Gated
    BY GateInit
  <1>2. ASSUME Calm, Gated, [Next]_vars PROVE Gated'
    <2> SUFFICES ASSUME Fixed' PROVE GateInv'
      OBVIOUS
    <2>1. Types /\ CalmInv /\ GateInv
      BY <1>2, FixedBefore DEF Calm
    <2> QED BY <1>2, <2>1, GateKept DEF CalmInv
  <1>3. Calm /\ Gated => (Fixed => BufferComes)
    <2> SUFFICES ASSUME Types, CalmInv, GateInv, rpc = "wait2",
                        inFlight >= SwapChainCount, ~hidden
                 PROVE  awaiting \in retired \cup releases \/ DrainComes
      BY Zenon DEF BufferComes, Calm
    <2>1. CASE Exiting
      BY <2>1 DEF Exiting, DrainComes
    <2>2. CASE ~Exiting
      <3>1. inFlight = SwapChainCount
        BY <2>2, ConstantsOK DEF GateInv, Types, Counts
      <3> QED BY <2>2, <3>1 DEF GateInv, CalmInv, FlowInv, DrainComes
    <2> QED BY <2>1, <2>2
  <1> HIDE DEF Gated
  <1> QED BY <1>1, <1>2, <1>3, CalmKept, PTL DEF Init_Next

\* What the promise about the contents rests on.
SeenInv == OrderInv /\ FreshInv /\ SettledInv

\* Once everything has settled the newest contents are on the screen
\* (generic.zig:1740-1744), on such a surface, also if waits time out.
THEOREM NewestIsShown ==
    ASSUME ~LateShow, Accepted, Reserved, ~DupFails
    PROVE  Init_Next => [](Fixed => NewestShown)
  <1> DEFINE Seen == Fixed => SeenInv
  <1>1. Init => Seen
    BY FreshInit DEF SeenInv
  <1>2. ASSUME Calm, Seen, [Next]_vars PROVE Seen'
    <2> SUFFICES ASSUME Fixed' PROVE SeenInv'
      OBVIOUS
    <2>1. Types /\ CalmInv /\ SeenInv
      BY <1>2, FixedBefore DEF Calm
    <2>2. OrderInv' /\ FreshInv'
      BY <1>2, <2>1, OrderKept, FreshKept DEF CalmInv, SeenInv
    <2>3. SettledInv'
      BY <1>2, <2>1, SettledKept DEF CalmInv, SeenInv
    <2> QED BY <2>2, <2>3 DEF SeenInv
  <1>3. Calm /\ Seen => (Fixed => NewestShown)
    <2> SUFFICES ASSUME Types, CalmInv, SeenInv, Quiet, shown # NoBuffer
                 PROVE  pix[shown] = cells
      BY DEF NewestShown, Calm
    <2>1. Settled
      BY DEF Quiet, Settled, Exiting
    <2>2. parked = NoBuffer
      BY DEF Quiet, CalmInv, FlowInv, Types, Counts
    <2>3. shown = last
      BY DEF Quiet, CalmInv, CacheInv, Exiting
    <2> QED BY <2>1, <2>2, <2>3 DEF SeenInv, SettledInv
  <1> HIDE DEF Seen
  <1> QED BY <1>1, <1>2, <1>3, CalmKept, PTL DEF Init_Next
=============================================================================
