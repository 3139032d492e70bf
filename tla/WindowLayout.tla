------------------------------ MODULE WindowLayout ------------------------------
(***************************************************************************)
(* The geometry of the main window and of its list of adapters, in pixels. *)
(*                                                                         *)
(* Sizes are given for 96 DPI and scaled by a division that rounds down;   *)
(* painting, placing and hit testing each do their own arithmetic on them.  *)
(* MainWindow says when the list is there; here it is, fully open.          *)
(***************************************************************************)
EXTENDS Integers

CONSTANTS
    Scales,     \* DPI of a display
    Works,      \* height and width of the work area of the screen
    Counts      \* numbers of network adapters

(* A screen has room for the window at a sixth of its size.  (On a smaller  *)
(* one the scaled controls would run into one another.)                    *)
ASSUME LayoutAssumption ==
    /\ Scales \subseteq Nat \ {0} /\ Counts \subseteq Nat
    /\ \A w \in Works : w.w \in Nat /\ w.w >= 70 /\ w.h \in Nat /\ w.h >= 93

VARIABLES
    work,       \* the work area
    dpi,        \* the scale the window is laid out for
    top,        \* the upper edge of the window on the screen
    count,      \* items of the list: the adapters and "automatic"
    list,       \* the list's window on the screen: its edge and its height
    scroll,     \* combo_scroll
    chosen      \* combo_sel

layoutVars == <<work, dpi, top, count, list, scroll, chosen>>

AtLeast(x, low) == IF x < low THEN low ELSE x
AtMost(x, high) == IF x > high THEN high ELSE x
Clamp(x, low, high) == AtLeast(AtMost(x, high), low)

(* winutil::scale                                                          *)
Scale(px, at) == (px * at) \div 96
S(px) == Scale(px, dpi)

(* layout.rs                                                               *)
Width == 420
TitleHeight == 40
FieldHeight == 36
PassTop == 306
ComboTop == 370
ToggleTop == 420
ToggleSecondTop == 454
ActionTop == 502
ActionBottom == 538
Height == 558

(* display_layout: a small work area limits the scale of everything.       *)
Effective(display, w) ==
    AtMost(AtMost(AtLeast(display, 96), AtLeast((w.w * 96) \div Width, 1)),
           AtLeast((w.h * 96) \div Height, 1))

(* display_layout: the window stays where it is, as far as the screen goes. *)
PlaceWindow(anchor, w, at) == Clamp(anchor, 0, AtLeast(w.h - Scale(Height, at), 0))

(* The list: its items, their padding, and the shadow around it.           *)
Item == S(40)
Pad == S(8)
Shadow == S(10)
Content == 2 * Pad + count * Item

(* show_combo_popup: below the field if there is room for all of it, else   *)
(* above, else where there is more room.                                   *)
PlaceList ==
    LET fieldTop == top + S(ComboTop)
        fieldBottom == top + S(ComboTop + FieldHeight)
        below == AtLeast(work.h - fieldBottom - S(4) - 2 * Shadow, 0)
        above == AtLeast(fieldTop - S(4) - 2 * Shadow, 0)
        down == \/ Content <= below
                \/ Content > above /\ below >= above
        high == IF Content <= below \/ Content <= above THEN Content
                ELSE AtLeast(IF down THEN below ELSE above, Item + 2 * Pad)
        h == AtMost(high + 2 * Shadow, work.h)
        y == IF down THEN fieldBottom + S(4) ELSE fieldTop - S(4) - high
    IN  [y |-> Clamp(y - Shadow, 0, work.h - h), h |-> h]

(* combo_max_scroll                                                        *)
MaxScroll == AtLeast(Content - AtLeast(list.h - 2 * Shadow, 0), 0)

(* The part of the list that items are painted in, its clip region.        *)
InClip(y) == y >= Shadow + Pad /\ y < list.h - Shadow - Pad

(* paint_combo_popup_ui: where item i is painted.                           *)
ItemTop(i) == Shadow + Pad + i * Item - scroll
Painted(i) == ~(ItemTop(i) + Item < Shadow \/ ItemTop(i) > list.h - Shadow)

(* Faulty variant: the list's own edge is forgotten.                       *)
ItemAt_NoShadow(y) ==
    LET i == (y + scroll - Pad) \div Item
    IN  IF InClip(y) /\ i \in 0 .. count - 1 THEN i ELSE -1

(* popup_item_at, for a point between the list's sides; -1 is none.        *)
ItemAt(y) ==
    LET i == (y - Shadow + scroll - Pad) \div Item
    IN  IF InClip(y) /\ y - Shadow + scroll >= Pad /\ i \in 0 .. count - 1 THEN i ELSE -1

(* The rectangles that are painted, and those that a click is tested for.  *)
Rect(l, t, r, b) == [l |-> S(l), t |-> S(t), r |-> S(r), b |-> S(b)]

EyeHit == LET t == S(PassTop) + (S(FieldHeight) - S(20)) \div 2
          IN  [l |-> S(384) - S(10) - S(20), t |-> t, r |-> S(384) - S(10), b |-> t + S(20)]

Zones ==
    [close |-> [l |-> S(Width) - S(46), t |-> 0, r |-> S(Width), b |-> S(TitleHeight)],
     min |-> [l |-> S(Width) - S(92), t |-> 0, r |-> S(Width) - S(46), b |-> S(TitleHeight)],
     combo |-> Rect(36, ComboTop, 384, ComboTop + FieldHeight), eye |-> EyeHit,
     connect |-> Rect(20, ActionTop, 400, ActionBottom),
     auto |-> Rect(36, ToggleTop - 2, 210, ToggleTop + 26),
     remember |-> Rect(210, ToggleTop - 2, 384, ToggleTop + 26),
     startup |-> Rect(36, ToggleSecondTop - 2, 210, ToggleSecondTop + 26),
     tray |-> Rect(210, ToggleSecondTop - 2, 384, ToggleSecondTop + 26)]


(* Two zones with a common edge, which belongs to the one on the right.      *)
Neighbours == {{"close", "min"}, {"auto", "remember"}, {"startup", "tray"}}

-----------------------------------------------------------------------------
(* The window is somewhere on the screen when the list is opened.          *)
LayoutInit ==
    /\ work \in Works
    /\ \E display \in Scales : dpi = Effective(display, work)
    /\ \E anchor \in {0, work.h \div 3, work.h} : top = PlaceWindow(anchor, work, dpi)
    /\ count \in {n + 1 : n \in Counts} /\ chosen \in {0, count - 1}
    /\ list = PlaceList /\ scroll = 0

(* WM_MOUSEWHEEL of the list; a turn is counted in 120ths, and what is less  *)
(* than one does nothing.                                                  *)
Wheel(turns) ==
    /\ scroll' = AtMost(AtLeast(scroll - turns * Item, 0), MaxScroll)
    /\ UNCHANGED <<work, dpi, top, count, list, chosen>>

(* WM_LBUTTONDOWN of the list: an item is chosen; the list is closed, and    *)
(* opened again at its top.                                                *)
Press(y) ==
    /\ ItemAt(y) # -1
    /\ chosen' = ItemAt(y) /\ scroll' = 0
    /\ UNCHANGED <<work, dpi, top, count, list>>

Edges == {ItemTop(i) + d : i \in 0 .. count, d \in {-1, 0}}
           \cup {Shadow + Pad + d : d \in {-1, 0}}
           \cup {list.h - Shadow - Pad + d : d \in {-1, 0}}

LayoutNext == \/ \E turns \in {-3, -1, 1} : Wheel(turns)
        \/ \E y \in Edges : Press(y)

LayoutSpec == LayoutInit /\ [][LayoutNext]_layoutVars

-----------------------------------------------------------------------------
Inside(i, at) == /\ Shadow + Pad <= Shadow + Pad + i * Item - at
                 /\ Shadow + Pad + (i + 1) * Item - at <= list.h - Shadow - Pad

(* A click on the list chooses the item that is painted there and no other, *)
(* at every scale and however far it is scrolled; and the wheel brings each  *)
(* item into full view.                                                    *)
ListIsUsable ==
    /\ \A y \in Edges \cap 0 .. list.h - 1 :
         LET under == {i \in 0 .. count - 1 :
                         /\ Painted(i) /\ InClip(y)
                         /\ ItemTop(i) <= y /\ y < ItemTop(i) + Item}
         IN  IF under = {} THEN ItemAt(y) = -1 ELSE under = {ItemAt(y)}
    /\ \A i \in 0 .. count - 1 :
         \E turns \in 0 .. count : Inside(i, AtMost(turns * Item, MaxScroll))

Apart(a, b) == a.r < b.l \/ b.r < a.l \/ a.b < b.t \/ b.b < a.t

(* The window and the list lie on the screen as a whole, although a scaled   *)
(* window may be larger than it, and no point of the window belongs to two   *)
(* of the controls that a click is tested for.                             *)
EverythingFits ==
    /\ Scale(Width, dpi) <= work.w
    /\ top >= 0 /\ top + Scale(Height, dpi) <= work.h
    /\ list.y >= 0 /\ list.y + list.h <= work.h
    /\ scroll \in 0 .. MaxScroll
    /\ LET zones == Zones
       IN  \A a, b \in DOMAIN zones :
             a # b /\ {a, b} \notin Neighbours => Apart(zones[a], zones[b])

(* Together: what is painted can be seen, reached and hit.                  *)
LayoutIsUsable == ListIsUsable /\ EverythingFits
=============================================================================
