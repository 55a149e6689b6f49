---------------------------- MODULE FramePresent ----------------------------
(***************************************************************************)
(* How a frame gets from the renderer thread to the screen in the Qt front *)
(* end on Vulkan and Wayland: the swap chain and draw_mutex of the core,   *)
(* the parked dma-buf of GhosttySurface with its two waits, the subsurface *)
(* presenter with its buffer cache and release gate, and the compositor.   *)
(* Three threads of control: the renderer thread (rpc), the GUI thread     *)
(* (gpc), which also dispatches the Wayland events, and the compositor.    *)
(*                                                                         *)
(* A dma-buf is a number, 1 upwards in the order they are exported; pix is *)
(* the version of the cells last drawn into it.                            *)
(***************************************************************************)
EXTENDS Naturals, Sequences, FiniteSets

CONSTANTS
    SwapChainCount,   \* kSwapChainCount, swap_chain_count
    Sizes,            \* pixel sizes the widget may have
    MaxBuffers,       \* bound: dma-bufs ever exported
    MaxCells,         \* bound: changes of the terminal's contents
    MaxHides,         \* bound: Hide events
    MaxMoves,         \* bound: detachments from a top-level window
    MaxTeardowns,     \* bound: destructions of the platform window
    MaxResizes,       \* bound: changes of size
    MaxInFlight,      \* bound: value of m_buffersInFlight
    Timeouts,         \* may a 100 ms wait run out before its condition holds?
    DupFails,         \* may dup(2) fail?
    ImportFails,      \* may the import of a dma-buf into a wl_buffer fail?
    CreateFails,      \* may the presenter's creation fail?
    Advertised,       \* does the compositor advertise the frames' format?
    ReleaseFirst,     \* are replaced buffers released before the frame callback?
    LateShow          \* does the renderer draw before the first Show event?

Buffers == 1..MaxBuffers
NoBuffer == 0
Blank == MaxBuffers + 1     \* a target of 1 x 1 pixels, never drawn to
Slots == 0..(SwapChainCount - 1)
NoSlot == SwapChainCount

ASSUME ConstantsOK ==
    /\ SwapChainCount \in Nat \ {0}
    /\ {MaxBuffers, MaxCells, MaxHides, MaxMoves, MaxTeardowns,
        MaxResizes, MaxInFlight} \subseteq Nat
    /\ {Timeouts, DupFails, ImportFails, CreateFails, Advertised, ReleaseFirst,
        LateShow} \subseteq BOOLEAN

\* Every frame of the widget's size that reaches the presenter is presented.
Accepted == Advertised /\ ~ImportFails

VARIABLES
    hidden, useSubsurface, ready, inFlight, parked, drainScheduled, hasFrame,
    posted,           \* queued invocations of drainVulkan
    imagePending, image,    \* m_pending and m_image hold a picture
    presenter, cache, last, awaiting, callback,
    shown, retired, releases,
    size, mail, visible, lock, cells, rebuilt, screen, chain, slots, index,
    lastTarget, made, sizeOf, pix,
    rpc, rframe, gpc, gret,
    moved,            \* the widget changed its top-level window
    hides, moves, teardowns, resizes

widget == <<hidden, useSubsurface, hasFrame>>
gate == <<ready, inFlight>>
parking == <<parked, drainScheduled, posted>>
images == <<imagePending, image>>
surfaceOf == <<presenter, cache, last, awaiting, callback>>
compositor == <<shown, retired, releases>>
occlusion == <<mail, visible>>
drawing == <<cells, rebuilt, screen, chain, slots, index, lastTarget, made, sizeOf, pix>>
guiAt == <<gpc, gret>>
rendererAt == <<rpc, rframe>>
bounds == <<hides, moves, teardowns, resizes>>
vars == <<widget, gate, parking, images, surfaceOf, compositor, size, moved, occlusion,
          lock, drawing, guiAt, rendererAt, bounds>>

\* Mutant: counts below zero wrap around, as for an unsigned counter.
DecrementedFreely(n) == IF n > 0 THEN n - 1 ELSE MaxInFlight + 1

Decremented(n) == IF n > 0 THEN n - 1 ELSE 0
SizeOf(b) == IF b \in Buffers THEN sizeOf[b] ELSE "1x1"

Init ==
    /\ hidden = FALSE /\ hasFrame = FALSE
    /\ useSubsurface = ~LateShow /\ presenter = ~LateShow
    /\ ready = TRUE /\ inFlight = 0
    /\ parked = NoBuffer /\ drainScheduled = FALSE /\ posted = 0
    /\ imagePending = FALSE /\ image = FALSE
    /\ cache = {} /\ last = NoBuffer /\ awaiting = NoBuffer /\ callback = "none"
    /\ shown = NoBuffer /\ retired = {} /\ releases = {}
    /\ size \in Sizes /\ screen = size
    /\ mail = <<>> /\ visible = TRUE /\ lock = "free"
    /\ cells = 0 /\ rebuilt = FALSE /\ chain = TRUE
    /\ slots = [s \in Slots |-> NoBuffer] /\ index = 0 /\ lastTarget = NoSlot
    /\ made = 0 /\ sizeOf = [b \in Buffers |-> size] /\ pix = [b \in Buffers |-> 0]
    /\ rpc = "idle" /\ rframe = NoSlot /\ gpc = "idle" /\ gret = "idle"
    /\ moved = FALSE /\ hides = 0 /\ moves = 0 /\ teardowns = 0 /\ resizes = 0

-----------------------------------------------------------------------------
(* Drawing, on whichever thread holds draw_mutex.                          *)

NeedsRedraw(sync) == sync \/ rebuilt \/ screen # size \/ ~chain

NextSlot == (index + 1) % SwapChainCount

\* A target of another size is replaced, and its replacement exported anew.
Redraw ==
    LET s == NextSlot
        resized == SizeOf(slots[s]) # size
        b == IF resized THEN made + 1 ELSE slots[s]
    IN  /\ b \in Buffers
        /\ made' = IF resized THEN b ELSE made
        /\ slots' = [slots EXCEPT ![s] = b]
        /\ sizeOf' = [sizeOf EXCEPT ![b] = size]
        /\ pix' = [pix EXCEPT ![b] = cells]
        /\ index' = s
        /\ chain' = TRUE /\ rebuilt' = FALSE /\ screen' = size

\* The dma-buf exported from the target in a slot.
Exported(s) == IF slots[s] = NoBuffer THEN Blank ELSE slots[s]

\* Buffers the compositor may still read: shown, or replaced and not released.
Held == (retired \cup {shown}) \ {NoBuffer}

-----------------------------------------------------------------------------
(* Renderer thread.                                                        *)

\* renderCallback: a change of the terminal is copied into the cells, or none is:
\* nothing changed, its output is synchronized, or the update failed.
UpdateFrame(changed) ==
    /\ rpc \in {"idle", "woken"} /\ gpc \notin {"exit3", "gone"}
    /\ visible
    /\ lock = "free"
    /\ changed => cells < MaxCells
    /\ cells' = IF changed THEN cells + 1 ELSE cells
    /\ rebuilt' = (rebuilt \/ changed)
    /\ rpc' = "draw"
    /\ UNCHANGED <<widget, gate, parking, images, surfaceOf, compositor, size, occlusion,
                   lock, screen, chain, slots, index, lastTarget, made, sizeOf, pix,
                   guiAt, rframe, moved, bounds>>

\* The visible message; hidden surfaces give up their swap chain.
Occlusion ==
    /\ rpc = "idle" /\ gpc # "gone" /\ mail # <<>> /\ lock = "free"
    /\ mail' = Tail(mail)
    /\ visible' = Head(mail)
    /\ rpc' = IF Head(mail) /\ ~visible THEN "woken" ELSE "idle"
    /\ IF ~Head(mail) /\ visible
       THEN /\ chain' = FALSE /\ index' = 0
            /\ slots' = [s \in Slots |-> NoBuffer]
       ELSE UNCHANGED <<chain, index, slots>>
    /\ UNCHANGED <<widget, gate, parking, images, surfaceOf, compositor, size, lock, cells,
                   rebuilt, screen, lastTarget, made, sizeOf, pix, guiAt, rframe, moved, bounds>>

\* drawFrame: draw, or present the last target of this thread once more.
Draw ==
    /\ rpc = "draw" /\ lock = "free"
    /\ \/ /\ NeedsRedraw(FALSE)
          /\ Redraw
          /\ lock' = "renderer" /\ rpc' = "present" /\ rframe' = NextSlot
       \/ /\ ~NeedsRedraw(FALSE) /\ lastTarget # NoSlot
          /\ lock' = "renderer" /\ rpc' = "present" /\ rframe' = lastTarget
          /\ UNCHANGED <<rebuilt, screen, chain, slots, index, made, sizeOf, pix>>
       \/ /\ ~NeedsRedraw(FALSE) /\ lastTarget = NoSlot
          /\ rpc' = "idle"
          /\ UNCHANGED <<lock, rframe, rebuilt, screen, chain, slots, index, made, sizeOf, pix>>
    /\ UNCHANGED <<widget, gate, parking, images, surfaceOf, compositor, size, occlusion,
                   cells, lastTarget, guiAt, moved, bounds>>

\* Mutant: the first target presented stays the last one.
PresentedFirst ==
    /\ rpc' = "idle" /\ rframe' = NoSlot
    /\ lastTarget' = IF lastTarget = NoSlot THEN rframe ELSE lastTarget
    /\ lock' = "free"

\* Returning from present: last_target is kept, draw_mutex given up.
Presented ==
    /\ rpc' = "idle" /\ rframe' = NoSlot
    /\ lastTarget' = rframe
    /\ lock' = "free"

CoreUnchanged ==
    UNCHANGED <<size, occlusion, cells, rebuilt, screen, chain, slots, index, made,
                sizeOf, pix, guiAt, moved, bounds>>

\* presentVulkanDmabuf chooses its path first and looks at m_hidden second.
ChoosePath ==
    /\ rpc = "present"
    /\ rpc' = IF useSubsurface THEN "checkPark" ELSE "checkImage"
    /\ UNCHANGED <<widget, gate, parking, images, surfaceOf, compositor, rframe, lastTarget, lock>>
    /\ CoreUnchanged

HiddenReturns ==
    /\ rpc \in {"checkPark", "checkImage"} /\ hidden
    /\ Presented
    /\ UNCHANGED <<widget, gate, parking, images, surfaceOf, compositor>>
    /\ CoreUnchanged

\* The first free transition of m_drainScheduled posts the invocation.
Schedule ==
    /\ drainScheduled' = TRUE
    /\ posted' = IF drainScheduled THEN posted ELSE posted + 1

\* The copying path: a picture for paintEvent.
PresentImage ==
    /\ rpc = "checkImage" /\ ~hidden
    /\ imagePending' = TRUE
    /\ Schedule
    /\ Presented
    /\ UNCHANGED <<widget, gate, parked, image, surfaceOf, compositor>>
    /\ CoreUnchanged

EnterWait ==
    /\ rpc = "checkPark" /\ ~hidden
    /\ rpc' = "wait1"
    /\ UNCHANGED <<widget, gate, parking, images, surfaceOf, compositor, rframe, lastTarget, lock>>
    /\ CoreUnchanged

\* WAIT-1: until the compositor is ready, the widget is hidden or 100 ms are over.
ClaimToken ==
    /\ rpc = "wait1"
    /\ ~hidden /\ (ready \/ Timeouts)
    /\ inFlight < MaxInFlight
    /\ ready' = FALSE /\ inFlight' = inFlight + 1
    /\ rpc' = "park"
    /\ UNCHANGED <<widget, parking, images, surfaceOf, compositor, rframe, lastTarget, lock>>
    /\ CoreUnchanged

HiddenWhileWaiting ==
    /\ rpc = "wait1" /\ hidden
    /\ Presented
    /\ UNCHANGED <<widget, gate, parking, images, surfaceOf, compositor>>
    /\ CoreUnchanged

\* Mutant: the token is given back, the count is not.
DupFailedCounted ==
    /\ rpc = "park" /\ DupFails
    /\ ready' = TRUE
    /\ Presented
    /\ UNCHANGED <<widget, inFlight, parking, images, surfaceOf, compositor>>
    /\ CoreUnchanged

DupFailed ==
    /\ rpc = "park" /\ DupFails
    /\ ready' = TRUE /\ inFlight' = Decremented(inFlight)
    /\ Presented
    /\ UNCHANGED <<widget, parking, images, surfaceOf, compositor>>
    /\ CoreUnchanged

\* The parked frame is replaced; the descriptor of the previous one is closed.
Park ==
    /\ rpc = "park"
    /\ parked' = Exported(rframe)
    /\ rpc' = "schedule"
    /\ UNCHANGED <<widget, gate, drainScheduled, posted, images, surfaceOf, compositor,
                   rframe, lastTarget, lock>>
    /\ CoreUnchanged

ScheduleDrain ==
    /\ rpc = "schedule"
    /\ Schedule
    /\ rpc' = "wait2"
    /\ UNCHANGED <<widget, gate, parked, images, surfaceOf, compositor, rframe, lastTarget, lock>>
    /\ CoreUnchanged

\* WAIT-2: until a buffer is free, the widget is hidden or 100 ms are over.
LeaveGate ==
    /\ rpc = "wait2"
    /\ inFlight < SwapChainCount \/ hidden \/ Timeouts
    /\ Presented
    /\ UNCHANGED <<widget, gate, parking, images, surfaceOf, compositor>>
    /\ CoreUnchanged

-----------------------------------------------------------------------------
(* The presenter's part of a drain, and the compositor's.                  *)

RendererUnchanged == UNCHANGED <<occlusion, drawing, rendererAt>>

\* The compositor takes b, or nothing, in place of what it shows.
Commit(b) ==
    /\ shown' = b
    /\ retired' = (retired \cup {shown}) \ {b, NoBuffer}

ArmCallback == callback' = IF callback = "none" THEN "armed" ELSE callback

\* SubsurfacePresenter::presentDmabuf: buffers of another shape are destroyed,
\* the release gate waits for the replaced buffer, if there is one left.
PresentDmabuf(b) ==
    LET sameShape == {c \in cache : SizeOf(c) = SizeOf(b)}
        replaced == IF last \in sameShape THEN last ELSE NoBuffer
        kept == IF awaiting \in sameShape THEN awaiting ELSE NoBuffer
        deferred == replaced \notin {NoBuffer, b}
    IN  /\ cache' = sameShape \cup {b}
        /\ last' = b
        /\ awaiting' = IF deferred THEN replaced ELSE kept
        /\ inFlight' = IF deferred THEN inFlight ELSE Decremented(inFlight)
        /\ releases' = releases \cap cache'
        /\ Commit(b)
        /\ ArmCallback

\* A format the compositor does not advertise: dropped, the gate opened.
RefuseDmabuf ==
    /\ inFlight' = Decremented(inFlight)
    /\ UNCHANGED <<surfaceOf, compositor>>

\* A buffer that is not in the cache cannot be imported: dropped as well, after
\* the buffers of another shape are gone.
ImportFailed(b) ==
    LET sameShape == {c \in cache : SizeOf(c) = SizeOf(b)}
    IN  /\ ImportFails /\ b \notin cache
        /\ cache' = sameShape
        /\ last' = IF last \in sameShape THEN last ELSE NoBuffer
        /\ awaiting' = IF awaiting \in sameShape THEN awaiting ELSE NoBuffer
        /\ releases' = releases \cap sameShape
        /\ inFlight' = Decremented(inFlight)
        /\ UNCHANGED <<presenter, callback, shown, retired>>

\* Destroying the presenter destroys its proxies: no event will come.
DestroyPresenter ==
    /\ presenter' = FALSE /\ useSubsurface' = FALSE
    /\ cache' = {} /\ last' = NoBuffer /\ awaiting' = NoBuffer
    /\ callback' = "none" /\ releases' = {}
    /\ Commit(NoBuffer)

\* hide() and the parent commit: the subsurface shows nothing.
Detach ==
    IF presenter
    THEN Commit(NoBuffer) /\ UNCHANGED releases
    ELSE UNCHANGED compositor

\* A replaced buffer is no longer read; its release is sent if its proxy lives.
CompositorRelease(b) ==
    /\ b \in retired
    /\ retired' = retired \ {b}
    /\ releases' = IF b \in cache THEN releases \cup {b} ELSE releases
    /\ UNCHANGED <<widget, gate, parking, images, surfaceOf, shown, size, lock, guiAt, moved, bounds>>
    /\ RendererUnchanged

\* A surface without a buffer gets no frame callbacks.
CompositorFrame ==
    /\ callback = "armed" /\ shown # NoBuffer
    /\ ReleaseFirst => retired = {}
    /\ callback' = "done"
    /\ UNCHANGED <<widget, gate, parking, images, presenter, cache, last, awaiting,
                   compositor, size, lock, guiAt, moved, bounds>>
    /\ RendererUnchanged

-----------------------------------------------------------------------------
(* GUI thread.                                                             *)

\* Mutant: the frame callback does not open the gate.
FrameReadyUnheard ==
    /\ gpc = "idle" /\ callback = "done"
    /\ ~ReleaseFirst \/ releases = {}
    /\ callback' = "none"
    /\ UNCHANGED <<widget, gate, parking, images, presenter, cache, last, awaiting,
                   compositor, size, lock, guiAt, moved, bounds>>
    /\ RendererUnchanged

FrameReady ==
    /\ gpc = "idle" /\ callback = "done"
    /\ ~ReleaseFirst \/ releases = {}
    /\ callback' = "none" /\ ready' = TRUE
    /\ UNCHANGED <<widget, inFlight, parking, images, presenter, cache, last, awaiting,
                   compositor, size, lock, guiAt, moved, bounds>>
    /\ RendererUnchanged


BufferReleased(b) ==
    /\ gpc = "idle" /\ b \in releases
    /\ releases' = releases \ {b}
    /\ awaiting' = IF b = awaiting THEN NoBuffer ELSE awaiting
    /\ inFlight' = IF b = awaiting THEN Decremented(inFlight) ELSE inFlight
    /\ UNCHANGED <<widget, ready, parking, images, presenter, cache, last, callback,
                   shown, retired, size, lock, guiAt, moved, bounds>>
    /\ RendererUnchanged

\* Mutant: the slot is given up by no one.
DrainBeginsScheduled ==
    /\ \/ gpc = "idle" /\ posted > 0 /\ posted' = posted - 1 /\ gret' = "idle"
       \/ gpc = "clear" /\ UNCHANGED <<posted, gret>>
    /\ gpc' = "take"
    /\ UNCHANGED <<widget, gate, parked, drainScheduled, images, surfaceOf, compositor,
                   size, lock, moved, bounds>>
    /\ RendererUnchanged

\* drainVulkan gives up the slot before it looks at what is parked.
DrainBegins ==
    /\ \/ gpc = "idle" /\ posted > 0 /\ posted' = posted - 1 /\ gret' = "idle"
       \/ gpc = "clear" /\ UNCHANGED <<posted, gret>>
    /\ drainScheduled' = FALSE
    /\ gpc' = "take"
    /\ UNCHANGED <<widget, gate, parked, images, surfaceOf, compositor, size, lock, moved, bounds>>
    /\ RendererUnchanged

DrainRest == UNCHANGED <<hidden, useSubsurface, ready, drainScheduled, posted, size, lock, gret, moved, bounds>>

DrainHidden ==
    /\ gpc = "take" /\ hidden
    /\ parked' = NoBuffer
    /\ gpc' = gret
    /\ UNCHANGED <<hasFrame, inFlight, images, surfaceOf, compositor>>
    /\ DrainRest /\ RendererUnchanged

DrainImage ==
    /\ gpc = "take" /\ ~hidden /\ imagePending
    /\ imagePending' = FALSE /\ image' = TRUE
    /\ gpc' = gret
    /\ UNCHANGED <<hasFrame, inFlight, parked, surfaceOf, compositor>>
    /\ DrainRest /\ RendererUnchanged

DrainNothing ==
    /\ gpc = "take" /\ ~hidden /\ ~imagePending
    /\ ~useSubsurface \/ ~presenter \/ parked = NoBuffer
    /\ gpc' = gret
    /\ UNCHANGED <<hasFrame, inFlight, parked, images, surfaceOf, compositor>>
    /\ DrainRest /\ RendererUnchanged

\* Mutant: a frame parked before the surface was hidden is presented.
DrainFrameHidden ==
    /\ gpc = "take" /\ ~imagePending
    /\ useSubsurface /\ presenter /\ parked # NoBuffer
    /\ parked' = NoBuffer /\ gpc' = gret
    /\ hasFrame' = TRUE
    /\ PresentDmabuf(parked) /\ UNCHANGED <<presenter, images>>
    /\ DrainRest /\ RendererUnchanged

\* A frame of the wrong size is dropped, any other is presented.
DrainFrame ==
    /\ gpc = "take" /\ ~hidden /\ ~imagePending
    /\ useSubsurface /\ presenter /\ parked # NoBuffer
    /\ parked' = NoBuffer
    /\ gpc' = gret
    /\ \/ /\ SizeOf(parked) # size
          /\ UNCHANGED <<hasFrame, inFlight, surfaceOf, compositor>>
       \/ /\ SizeOf(parked) = size /\ hasFrame' = TRUE
          /\ IF Advertised
             THEN \/ PresentDmabuf(parked) /\ UNCHANGED presenter
                  \/ ImportFailed(parked)
             ELSE RefuseDmabuf
    /\ UNCHANGED images
    /\ DrainRest /\ RendererUnchanged

\* What syncSurfaceSize does once the core knows the new size: draw, or leave it.
AfterResize(next) ==
    /\ gret' = next
    /\ gpc' = IF (useSubsurface /\ presenter /\ ~hidden') \/ image THEN "lock" ELSE next

\* resizeEvent, also the synthetic one of a hidden widget.
Resize(s) ==
    /\ gpc = "idle" /\ resizes < MaxResizes /\ s # size
    /\ resizes' = resizes + 1
    /\ size' = s
    /\ UNCHANGED hidden /\ AfterResize("idle")
    /\ UNCHANGED <<useSubsurface, hasFrame, gate, parking, images, surfaceOf, compositor, moved, lock,
                   hides, moves, teardowns>>
    /\ RendererUnchanged

\* ghostty_surface_draw: the GUI thread takes draw_mutex, draws and presents
\* without the two waits.
InlineDraw ==
    /\ gpc = "lock" /\ lock = "free"
    /\ Redraw
    /\ gpc' = IF useSubsurface /\ presenter /\ ~hidden THEN "clear" ELSE "takeImage"
    /\ \/ hidden /\ UNCHANGED <<parking, imagePending>>
       \/ /\ ~hidden /\ useSubsurface
          /\ parked' = slots'[NextSlot] /\ Schedule
          /\ UNCHANGED imagePending
       \/ /\ ~hidden /\ ~useSubsurface
          /\ imagePending' = TRUE /\ Schedule
          /\ UNCHANGED parked
    /\ UNCHANGED <<widget, gate, image, surfaceOf, compositor, size, occlusion, lock, cells,
                   lastTarget, gret, rendererAt, moved, bounds>>

InlineDrawImage ==
    /\ gpc = "takeImage"
    /\ imagePending' = FALSE
    /\ gpc' = gret
    /\ UNCHANGED <<widget, gate, parking, image, surfaceOf, compositor, size, lock, gret, moved, bounds>>
    /\ RendererUnchanged

\* What the core was last told by ghostty_surface_set_occlusion.
Told == IF mail = <<>> THEN visible ELSE mail[Len(mail)]
Tell(v) == mail' = IF Told = v THEN mail ELSE Append(mail, v)

\* QEvent::Hide: the gate first, then the detached subsurface and the wake-up.
Hide ==
    /\ gpc = "idle" /\ Told
    /\ moved \/ hides < MaxHides
    /\ hides' = IF moved THEN hides ELSE hides + 1
    /\ hidden' = TRUE
    /\ gpc' = "hide"
    /\ UNCHANGED <<useSubsurface, hasFrame, gate, parking, images, surfaceOf, compositor,
                   size, lock, gret, moved, moves, teardowns, resizes>>
    /\ RendererUnchanged

HideFinish ==
    /\ gpc = "hide"
    /\ Tell(FALSE)
    /\ Detach
    /\ hasFrame' = FALSE
    /\ ready' = TRUE /\ inFlight' = 0
    /\ gpc' = "idle"
    /\ UNCHANGED <<hidden, useSubsurface, parking, images, surfaceOf, size, visible, lock,
                   drawing, gret, rendererAt, moved, bounds>>

\* detachFromTopLevel: before a reparent or a close.
DetachFromTopLevel ==
    /\ gpc = "idle" /\ moves < MaxMoves /\ ~hidden
    /\ moves' = moves + 1
    /\ hidden' = TRUE
    /\ moved' = TRUE
    /\ Detach
    /\ UNCHANGED <<useSubsurface, hasFrame, gate, parking, images, surfaceOf, size, lock,
                   guiAt, hides, teardowns, resizes>>
    /\ RendererUnchanged

\* Mutant: the frame of the destroyed presenter still counts as shown.
PlatformDestroyedHole ==
    /\ gpc = "idle" /\ teardowns < MaxTeardowns
    /\ teardowns' = teardowns + 1
    /\ DestroyPresenter
    /\ ready' = TRUE /\ inFlight' = 0
    /\ UNCHANGED <<hidden, hasFrame, parking, images, size, moved, lock, guiAt, hides, moves,
                   resizes>>
    /\ RendererUnchanged

\* AboutToBeDestroyed: the platform window goes and takes the presenter along.
PlatformDestroyed ==
    /\ gpc = "idle" /\ teardowns < MaxTeardowns
    /\ teardowns' = teardowns + 1
    /\ DestroyPresenter
    /\ ready' = TRUE /\ inFlight' = 0
    /\ hasFrame' = FALSE
    /\ UNCHANGED <<hidden, parking, images, size, moved, lock, guiAt, hides, moves, resizes>>
    /\ RendererUnchanged

\* QEvent::Show, in three parts: syncSurfaceSize, which may draw, a changed
\* top-level, and the reattached or created subsurface.
Show(s) ==
    /\ gpc = "idle"
    /\ ~Told \/ ~presenter
    /\ Tell(TRUE)
    /\ hidden' = FALSE
    /\ s # size => resizes < MaxResizes
    /\ resizes' = IF s # size THEN resizes + 1 ELSE resizes
    /\ size' = s
    /\ IF s # size THEN AfterResize("show") ELSE gpc' = "show" /\ UNCHANGED gret
    /\ UNCHANGED <<useSubsurface, hasFrame, gate, parking, images, surfaceOf, compositor,
                   visible, moved, lock, drawing, rendererAt,
                   hides, moves, teardowns>>

ShowTopLevel ==
    /\ gpc = "show"
    /\ gpc' = "attach"
    /\ moved' = FALSE
    /\ IF moved /\ presenter
       THEN DestroyPresenter /\ hasFrame' = FALSE
       ELSE UNCHANGED <<useSubsurface, hasFrame, surfaceOf, compositor>>
    /\ UNCHANGED <<hidden, gate, parking, images, size, lock, gret, bounds>>
    /\ RendererUnchanged

ShowReattach ==
    /\ gpc = "attach" /\ presenter
    /\ gpc' = "idle"
    /\ IF last # NoBuffer
       THEN Commit(last) /\ ArmCallback /\ hasFrame' = TRUE
       ELSE UNCHANGED <<shown, retired, callback, hasFrame>>
    /\ UNCHANGED <<hidden, useSubsurface, gate, parking, images, presenter, cache, last,
                   awaiting, releases, size, lock, gret, moved, bounds>>
    /\ RendererUnchanged

\* Without a top-level window or a presenter, the next Show event tries again.
ShowCreate ==
    /\ gpc = "attach" /\ ~presenter
    /\ gpc' = "idle"
    /\ \/ /\ presenter' = TRUE /\ useSubsurface' = TRUE
          /\ ready' = TRUE /\ inFlight' = 0
       \/ CreateFails /\ UNCHANGED <<presenter, useSubsurface, gate>>
    /\ UNCHANGED <<hidden, hasFrame, parking, images, cache, last, awaiting, callback,
                   compositor, size, lock, gret, moved, bounds>>
    /\ RendererUnchanged

\* ~GhosttySurface: the parked descriptor, the gate and the renderer thread.
ExitCloseParked ==
    /\ gpc = "idle"
    /\ parked' = NoBuffer
    /\ gpc' = "exit2"
    /\ UNCHANGED <<widget, gate, drainScheduled, posted, images, surfaceOf, compositor, size,
                   lock, gret, moved, bounds>>
    /\ RendererUnchanged

\* Mutant: the renderer is joined without being woken.
ExitWakeVisible ==
    /\ gpc = "exit2"
    /\ gpc' = "exit3"
    /\ UNCHANGED <<widget, gate, parking, images, surfaceOf, compositor, size, lock, gret,
                   moved, bounds>>
    /\ RendererUnchanged

ExitWake ==
    /\ gpc = "exit2"
    /\ hidden' = TRUE /\ ready' = TRUE
    /\ gpc' = "exit3"
    /\ UNCHANGED <<useSubsurface, hasFrame, inFlight, parking, images, surfaceOf, compositor,
                   size, lock, gret, moved, bounds>>
    /\ RendererUnchanged

\* ghostty_surface_free joins the renderer thread; the presenter goes after it,
\* and the queued drains are dropped with their receiver.
ExitJoined ==
    /\ gpc = "exit3" /\ rpc \in {"idle", "woken"}
    /\ gpc' = "gone"
    /\ DestroyPresenter
    /\ posted' = 0
    /\ UNCHANGED <<hidden, hasFrame, gate, parked, drainScheduled, images, size, lock, gret, moved, bounds>>
    /\ RendererUnchanged

-----------------------------------------------------------------------------
RendererPresents ==
    \/ Draw \/ ChoosePath \/ HiddenReturns \/ PresentImage \/ EnterWait \/ ClaimToken
    \/ HiddenWhileWaiting \/ DupFailed \/ Park \/ ScheduleDrain \/ LeaveGate
Renderer == RendererPresents \/ Occlusion \/ \E changed \in BOOLEAN : UpdateFrame(changed)
Drain == DrainBegins \/ DrainHidden \/ DrainImage \/ DrainNothing \/ DrainFrame
Showing == ShowTopLevel \/ ShowReattach \/ ShowCreate
Inline == InlineDraw \/ InlineDrawImage
Exit == ExitWake \/ ExitJoined
Gui ==
    \/ FrameReady \/ (\E b \in Buffers : BufferReleased(b))
    \/ Drain \/ Inline \/ Hide \/ HideFinish \/ DetachFromTopLevel \/ PlatformDestroyed
    \/ (\E s \in Sizes : Resize(s) \/ Show(s))
    \/ Showing \/ ExitCloseParked \/ Exit
Compositor == (\E b \in Buffers : CompositorRelease(b)) \/ CompositorFrame

Next == Renderer \/ Gui \/ Compositor
Init_Next == Init /\ [][Next]_vars

\* Becoming visible leads to an update.
Woken == rpc = "woken" /\ UpdateFrame(FALSE)

\* Threads that can run do run; the compositor releases what it replaced and
\* calls back for what it shows. New contents, events and the exit may never come.
Fairness ==
    /\ WF_vars(RendererPresents) /\ SF_vars(Occlusion) /\ WF_vars(Woken)
    /\ WF_vars(Drain) /\ WF_vars(FrameReady)
    /\ \A b \in Buffers : WF_vars(BufferReleased(b)) /\ WF_vars(CompositorRelease(b))
    /\ WF_vars(Inline) /\ WF_vars(HideFinish) /\ WF_vars(Showing)
    /\ WF_vars(ExitWake) /\ SF_vars(ExitJoined)
    /\ WF_vars(CompositorFrame)
Spec == Init_Next /\ Fairness

-----------------------------------------------------------------------------
(* Properties.                                                             *)

\* Every variable keeps its type (types of GhosttySurface.h:352-578 and
\* SubsurfacePresenter.h:195-262).
TypeOK ==
    /\ {hidden, useSubsurface, ready, drainScheduled, hasFrame, imagePending, image,
        presenter, visible, rebuilt, chain, moved} \subseteq BOOLEAN
    /\ inFlight \in 0..MaxInFlight /\ posted \in Nat
    /\ parked \in Buffers \cup {NoBuffer, Blank}
    /\ {cache, retired, releases} \subseteq SUBSET Buffers
    /\ {last, awaiting, shown} \subseteq Buffers \cup {NoBuffer}
    /\ callback \in {"none", "armed", "done"}
    /\ {size, screen} \subseteq Sizes /\ mail \in Seq(BOOLEAN)
    /\ lock \in {"free", "renderer"} /\ cells \in 0..MaxCells
    /\ slots \in [Slots -> Buffers \cup {NoBuffer}] /\ index \in Slots
    /\ {lastTarget, rframe} \subseteq Slots \cup {NoSlot}
    /\ made \in 0..MaxBuffers /\ sizeOf \in [Buffers -> Sizes]
    /\ pix \in [Buffers -> 0..MaxCells]
    /\ rpc \in {"idle", "woken", "draw", "present", "checkPark", "checkImage", "wait1",
               "park", "schedule", "wait2"}
    /\ {gpc, gret} \subseteq {"idle", "clear", "take", "lock", "takeImage", "hide", "show",
                            "attach", "exit2", "exit3", "gone"}
    /\ hides \in 0..MaxHides /\ moves \in 0..MaxMoves /\ teardowns \in 0..MaxTeardowns /\ resizes \in 0..MaxResizes

\* A hidden surface shows nothing, whatever the renderer was in the middle of
\* when it was hidden (the ghost of GhosttySurface.cpp:2202).
NoGhost == hidden /\ gpc \notin {"hide", "exit3"} => shown = NoBuffer

\* paintEvent leaves the terminal's area transparent only over a buffer
\* (m_subsurfaceHasFrame, GhosttySurface.h:421).
NoHole == gpc = "idle" /\ ~hidden /\ hasFrame => shown # NoBuffer

\* What will take the parked frame.
DrainComes == posted > 0 \/ rpc = "schedule" \/ gpc # "idle"

\* No parked frame is forgotten (GhosttySurface.cpp:2459-2463).
ParkedIsDrained ==
    parked # NoBuffer /\ ~hidden /\ useSubsurface /\ presenter => DrainComes

\* A renderer that waits for the compositor waits for something that is under way.
TokenComes ==
    rpc = "wait1" /\ ~ready /\ ~hidden =>
        callback # "none" \/ DrainComes \/ ~presenter

\* A renderer that waits for a buffer waits for one that will be released.
BufferComes ==
    rpc = "wait2" /\ inFlight >= SwapChainCount /\ ~hidden =>
        awaiting \in retired \cup releases \/ DrainComes \/ ~presenter

\* The cache of wl_buffers is bounded by the swap chain (SubsurfacePresenter.h:249-252).
CacheBounded == Cardinality(cache) <= SwapChainCount

\* The GUI thread never waits for draw_mutex behind a renderer that only events
\* of the GUI thread can wake (GhosttySurface.cpp:2218-2230).
GuiNotBehindWait ==
    ~ ( gpc = "lock" /\ ~hidden
        /\ \/ rpc = "wait1" /\ ~ready
           \/ rpc = "wait2" /\ inFlight >= SwapChainCount )

\* Nothing is drawn into a buffer the compositor may still read
\* (GhosttySurface.h:400-408, Vulkan.zig:136-152).
NoRedrawWhileHeld == [][ \A b \in Buffers : pix'[b] # pix[b] => b \notin Held ]_vars

\* A closed surface leaves no descriptor open (GhosttySurface.cpp:265-269).
NothingParkedAtExit == gpc = "gone" => parked = NoBuffer

\* Nothing is on its way.
Quiet ==
    /\ rpc = "idle" /\ gpc = "idle" /\ posted = 0 /\ ~rebuilt /\ ~hidden
    /\ mail = <<>> /\ presenter /\ useSubsurface

\* Once everything has settled the newest contents are on the screen
\* (generic.zig:1740-1744).
NewestShown == Quiet /\ shown # NoBuffer => pix[shown] = cells

\* After a Show the buffer shown has the size of the widget
\* (GhosttySurface.cpp:388-397).
ShownFits == gpc = "idle" /\ ~hidden /\ shown # NoBuffer => SizeOf(shown) = size

\* Every change of the terminal is shown, without the help of a timeout,
\* unless the surface is hidden or closed.
ChangesShown ==
    \A v \in 1..MaxCells :
        cells = v ~> \/ shown # NoBuffer /\ pix[shown] >= v
                     \/ hidden \/ gpc \in {"exit2", "exit3", "gone"}

\* The destructor's join ends.
ExitEnds == gpc = "exit2" ~> gpc = "gone"
=============================================================================
