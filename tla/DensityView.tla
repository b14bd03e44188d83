------------------------------ MODULE DensityView ------------------------------
(***************************************************************************)
(* The tab of a recovered density result (DensityResultView of             *)
(* gui/density_workspace.py, with the interpolation of                     *)
(* app/density_results.py).  Every change of the slider, the display mode  *)
(* or the resolution asks for a new surface: a timer gathers requests, one *)
(* worker computes a field at a time, and bases computed for a resolution  *)
(* are kept.  The View dialog previews its settings and can be cancelled.  *)
(***************************************************************************)
EXTENDS Naturals, Sequences

CONSTANTS
    None,
    Resolutions,   \* those offered; Source is the grid of the result itself
    Source,
    Fractions,     \* positions of the slider, in percent
    Isovalues,
    MaxChanges     \* bound on the user's gestures

\* What a surface worker is started with; None is none of these.
SurfaceWork == [revision : Nat, fraction : Fractions, difference : BOOLEAN,
                resolution : Resolutions, basis : {None} \cup [grid : Resolutions]]

ViewAssumption ==
    /\ Source \in Resolutions /\ {0, 100} \subseteq Fractions /\ MaxChanges \in Nat
    /\ None \notin SurfaceWork

VARIABLES
    control,    \* slider, display mode and accepted or previewed surface preferences
    dialog,     \* the preferences before the View dialog, or None
    surface,    \* revision asked for, timer, worker, and whether another must follow
    kept,       \* [resolution -> the basis kept for it, or None]
    displayed,  \* the field in the viewer, its resolution and its isovalue
    exporting,  \* whether a report is being written
    posted,     \* signals of the surface worker still to be delivered
    changes

vars == <<control, dialog, surface, kept, displayed, exporting, posted, changes>>

----------------------------------------------------------------------------
(* Fields. *)

\* display_basis: the total, reference and difference fields on the grid displayed.
DisplayBasis(resolution) == [grid |-> resolution]

\* interpolate_density_fields, by the fields it is made of: the difference scaled, on
\* top of the reference when the densities themselves are shown.
Interpolated(basis, fraction, difference) ==
    [grid |-> basis.grid, weight |-> fraction, reference |-> ~difference]

\* A difference of weight zero is an empty surface.
Shown(c) ==
    IF c.fraction = 0 /\ c.difference THEN None
    ELSE Interpolated(DisplayBasis(c.resolution), c.fraction, c.difference)

----------------------------------------------------------------------------
(* Gestures. *)

Gesture == changes < MaxChanges /\ changes' = changes + 1

\* _request_surface.
Requested(s) == [s EXCEPT !.revision = @ + 1, !.timer = TRUE]

\* The controls of the tab are off while a report is written and behind the dialog.
Enabled == dialog = None /\ ~exporting

MoveSlider(fraction) ==
    /\ Enabled /\ Gesture /\ fraction # control.fraction
    /\ control' = [control EXCEPT !.fraction = fraction]
    /\ surface' = Requested(surface)
    /\ UNCHANGED <<dialog, kept, displayed, exporting, posted>>

SelectMode(difference) ==
    /\ Enabled /\ Gesture /\ difference # control.difference
    /\ control' = [control EXCEPT !.difference = difference]
    /\ surface' = Requested(surface)
    /\ UNCHANGED <<dialog, kept, displayed, exporting, posted>>

SelectResolution(resolution) ==
    /\ Enabled /\ Gesture /\ resolution # control.resolution
    /\ control' = [control EXCEPT !.resolution = resolution]
    /\ surface' = Requested(surface)
    /\ UNCHANGED <<dialog, kept, displayed, exporting, posted>>

OpenViewSettings ==
    /\ Enabled /\ Gesture
    /\ dialog' = control
    /\ UNCHANGED <<control, surface, kept, displayed, exporting, posted>>

\* Preferences are given to the field on screen when it has their resolution; another
\* resolution asks for another field.
Redraw(isovalue) ==
    displayed' = IF displayed.field = None THEN displayed
                 ELSE [displayed EXCEPT !.isovalue = isovalue]

PreviewOrbital(resolution, isovalue) ==
    /\ dialog # None /\ Gesture
    /\ control' = [control EXCEPT !.resolution = resolution, !.isovalue = isovalue]
    /\ IF resolution # control.resolution
       THEN surface' = Requested(surface) /\ UNCHANGED displayed
       ELSE /\ UNCHANGED surface
            /\ IF displayed.resolution = resolution THEN Redraw(isovalue) ELSE UNCHANGED displayed
    /\ UNCHANGED <<dialog, kept, exporting, posted>>

\* Accepting keeps what was previewed.
AcceptViewSettings ==
    /\ dialog # None /\ dialog' = None
    /\ UNCHANGED <<control, surface, kept, displayed, exporting, posted, changes>>

CancelViewSettings ==
    /\ dialog # None /\ dialog' = None
    /\ control' = dialog
    /\ IF control.resolution # dialog.resolution
       THEN surface' = Requested(surface) /\ UNCHANGED displayed
       ELSE Redraw(dialog.isovalue) /\ UNCHANGED surface
    /\ UNCHANGED <<kept, exporting, posted, changes>>

Export ==
    /\ Enabled /\ Gesture
    /\ exporting' = TRUE
    /\ UNCHANGED <<control, dialog, surface, kept, displayed, posted>>

ExportEnds ==
    /\ exporting /\ exporting' = FALSE
    /\ UNCHANGED <<control, dialog, surface, kept, displayed, posted, changes>>

----------------------------------------------------------------------------
(* Surfaces. *)

\* The timer runs out: a worker takes what the controls show now, or one that still
\* runs will be followed by another.
StartSurface ==
    /\ surface.timer
    /\ surface' =
        IF surface.worker # None
        THEN [surface EXCEPT !.timer = FALSE, !.pending = TRUE]
        ELSE [surface EXCEPT !.timer = FALSE,
                !.worker = [revision |-> surface.revision, fraction |-> control.fraction,
                            difference |-> control.difference, resolution |-> control.resolution,
                            basis |-> kept[control.resolution]]]
    /\ UNCHANGED <<control, dialog, kept, displayed, exporting, posted, changes>>

\* prepare_surface, in the worker's thread; computing a field may fail.
Prepared(w) ==
    LET basis == IF w.basis # None THEN w.basis ELSE DisplayBasis(w.resolution) IN
    IF w.fraction = 0 /\ w.difference
    THEN [kind |-> "ready", basis |-> w.basis, field |-> None]
    ELSE [kind |-> "ready", basis |-> basis, field |-> Interpolated(basis, w.fraction, w.difference)]

Finished == [kind |-> "finished", basis |-> None, field |-> None]
Failed == [kind |-> "failed", basis |-> None, field |-> None]

PrepareSurface ==
    /\ surface.worker # None /\ posted = <<>> /\ ~surface.computed
    /\ surface' = [surface EXCEPT !.computed = TRUE]
    /\ \E outcome \in {Prepared(surface.worker), Failed} : posted' = <<outcome, Finished>>
    /\ UNCHANGED <<control, dialog, kept, displayed, exporting, changes>>

\* The basis is kept even when its surface is no longer asked for; rendering may fail
\* and leaves what was on screen.
SurfaceReady ==
    LET w == surface.worker
        event == Head(posted)
        current == w.revision = surface.revision /\ w.resolution = control.resolution IN
    /\ posted # <<>> /\ event.kind = "ready"
    /\ posted' = Tail(posted)
    /\ kept' = IF event.basis = None \/ kept[w.resolution] # None THEN kept
               ELSE [kept EXCEPT ![w.resolution] = event.basis]
    /\ \/ /\ current
          /\ displayed' = [field |-> event.field, resolution |-> w.resolution,
                           isovalue |-> control.isovalue, missed |-> FALSE]
       \/ /\ current
          /\ displayed' = [displayed EXCEPT !.missed = TRUE]
       \/ ~current /\ UNCHANGED displayed
    /\ UNCHANGED <<control, dialog, surface, exporting, changes>>

SurfaceFailed ==
    /\ posted # <<>> /\ Head(posted).kind = "failed"
    /\ posted' = Tail(posted)
    /\ displayed' = [displayed EXCEPT !.missed = TRUE]
    /\ UNCHANGED <<control, dialog, surface, kept, exporting, changes>>

SurfaceFinished ==
    /\ posted # <<>> /\ Head(posted).kind = "finished"
    /\ posted' = Tail(posted)
    /\ surface' = [surface EXCEPT !.worker = None, !.computed = FALSE, !.pending = FALSE,
                                  !.timer = @ \/ surface.pending]
    /\ UNCHANGED <<control, dialog, kept, displayed, exporting, changes>>

----------------------------------------------------------------------------
(* Behaviours. *)

Init ==
    /\ control \in [fraction : {100}, difference : {TRUE}, resolution : Resolutions,
                    isovalue : Isovalues]
    /\ dialog = None
    /\ surface = [revision |-> 1, timer |-> TRUE, worker |-> None, computed |-> FALSE,
                  pending |-> FALSE]
    /\ kept = [r \in Resolutions |-> IF r = Source THEN DisplayBasis(r) ELSE None]
    /\ displayed = [field |-> None, resolution |-> None, isovalue |-> None, missed |-> FALSE]
    /\ exporting = FALSE
    /\ posted = <<>>
    /\ changes = 0

Gestures ==
    \/ \E fraction \in Fractions : MoveSlider(fraction)
    \/ \E difference \in BOOLEAN : SelectMode(difference)
    \/ \E resolution \in Resolutions : SelectResolution(resolution)
    \/ OpenViewSettings \/ AcceptViewSettings \/ CancelViewSettings
    \/ \E resolution \in Resolutions, isovalue \in Isovalues : PreviewOrbital(resolution, isovalue)
    \/ Export

Surfaces ==
    StartSurface \/ PrepareSurface \/ SurfaceReady \/ SurfaceFailed \/ SurfaceFinished \/ ExportEnds

Next == Gestures \/ Surfaces

Spec == Init /\ [][Next]_vars

----------------------------------------------------------------------------
(* Properties. *)

Quiet == ~surface.timer /\ surface.worker = None

\* Once nothing is left to wait for, the surface on screen is the one that the slider,
\* the mode, the resolution and the isovalue ask for, whatever was previewed, cancelled
\* or changed while a worker ran, unless computing or rendering it has failed; and
\* what is kept for a resolution is the basis of that resolution.
SurfaceIsCurrent ==
    /\ Quiet /\ ~displayed.missed =>
        /\ displayed.field = Shown(control)
        /\ displayed.field # None => displayed.isovalue = control.isovalue
    /\ \A r \in Resolutions : kept[r] \in {None, DisplayBasis(r)}

=============================================================================
