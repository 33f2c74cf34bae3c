---------------------------- MODULE LayoutEditor ----------------------------
(***************************************************************************)
(* The freeform editor of the DDU's two screens (dashboard/src/            *)
(* callbacks.rs, catalog.rs, persist.rs): widgets placed on a display and  *)
(* its tab pages, the joystick numbers of buttons, presets, and the two    *)
(* files the dashboard starts from.                                        *)
(*                                                                         *)
(* A widget is [id, kind, disp, page, hid, x, w, els, text]: the code      *)
(* treats (x, w) and (y, h) alike, one of them is kept; `els` are the      *)
(* elements of a customised widget, `text` what its label does to a line   *)
(* of the protocol.  The zone layout behind the presets cannot be edited   *)
(* any more and is one widget here.                                        *)
(***************************************************************************)
EXTENDS Integers, FiniteSets, SequencesExt

CONSTANTS
  Canvas, MinSize, Snap,       \* CANVAS_W, smallest size, SNAP_PX
  Size,                        \* size of a new widget, by kind
  Corner, Step, Around,        \* where new widgets go: cascade of Around steps
  Columns, Gap,                \* the button grid
  MaxHid, MaxTabs,             \* joystick numbers, pages of a display
  SeedUid, RestartUid,         \* the id counter of a first and of a later start
  Texts,                       \* labels: "plain", "dollar" (holds a '$'), "long"
  Nudges                       \* drag distances and typed geometry

ASSUME EditorAssumption ==
  /\ Canvas \in Nat /\ MinSize \in 1..Canvas /\ Snap \in Nat /\ Nudges \subseteq Int
  /\ {"stat", "button"} \subseteq DOMAIN Size
  /\ \A k \in DOMAIN Size : Size[k] \in MinSize..Canvas
  /\ {Corner, Step, Gap, SeedUid, RestartUid} \subseteq Nat
  /\ MaxHid \in Nat /\ MaxTabs \in Nat \ {0} /\ Around \in Nat \ {0}
  /\ Columns \in Nat \ {0} /\ (Canvas - Gap * (Columns + 1)) \div Columns >= MinSize

\* A widget's id is its kind, or "m" for one that was read, and a number.
Ids   == (DOMAIN Size \cup {"m"}) \X Nat
NoSel == <<"", 0>>
ASSUME IdAssumption == NoSel \notin Ids

VARIABLES
  lay,        \* [nodes, tabs, zone]: widgets, number of tabs by display, id of the zone's widget
  view,       \* [disp, tab, sel, elem, drag]: what is edited; elem counts from 1
  presets, active,
  uid,        \* number of the next id
  dirty,      \* the mark "unsaved"
  file, pfile, \* the layout and the presets on disk
  foreign,    \* history: a preset or a layout of the device replaced the widgets, or two of them share an id
  rekinded    \* history: the user changed the kind of a widget or of an element

editor == <<lay, view, presets, active, uid, dirty, file, pfile, foreign, rekinded>>

Displays == 0..1
NoFile   == [there |-> FALSE]
NoDrag   == [by |-> "none", id |-> NoSel, x |-> 0, w |-> 0]

Clamp(v, lo, hi) == IF v < lo THEN lo ELSE IF v > hi THEN hi ELSE v

\* The a-th smallest of a set of numbers.
Nth(K, a) == CHOOSE i \in K : Cardinality({j \in K : j <= i}) = a

IdSet(l)    == {n.id : n \in Range(l.nodes)}
UniqueIds(l) == \A i, j \in DOMAIN l.nodes : l.nodes[i].id = l.nodes[j].id => i = j
At(l, id)   == CHOOSE i \in DOMAIN l.nodes : l.nodes[i].id = id /\ \A j \in 1..(i - 1) : l.nodes[j].id # id

Widget(id, kind, d, p, hid, x, w) ==
  [id |-> id, kind |-> kind, disp |-> d, page |-> p, hid |-> hid, x |-> x, w |-> w, els |-> <<>>, text |-> "plain"]

\* default_spec and zones_to_nodes of the one widget of the zones.
ZoneWidget(z)   == Widget(z, "stat", 0, 0, 0, 0, Size["stat"])
DefaultNodes(z) == <<ZoneWidget(z)>>
SeedPreset      == [builtin |-> TRUE, zone |-> <<"stat", 0>>, nodes |-> DefaultNodes(<<"stat", 0>>)]

Blank == [disp |-> 0, tab |-> 0, sel |-> NoSel, elem |-> 0, drag |-> NoDrag]

-----------------------------------------------------------------------------
(* The files                                                               *)

Snapshot(l) == [there |-> TRUE, lay |-> l, active |-> active]

\* save_presets writes the zones, and not the widgets.
PresetFile(ps) == [there |-> TRUE, presets |-> [i \in DOMAIN ps |-> [builtin |-> ps[i].builtin, zone |-> ps[i].zone]]]

LoadPresets(p) ==
  IF p.there THEN [i \in DOMAIN p.presets |-> [builtin |-> p.presets[i].builtin, zone |-> p.presets[i].zone,
                                               nodes |-> DefaultNodes(p.presets[i].zone)]]
  ELSE <<SeedPreset>>

LoadLayout(f, ps) ==
  IF ~f.there THEN [nodes |-> ps[1].nodes, tabs |-> [d \in Displays |-> 0], zone |-> ps[1].zone]
  ELSE IF f.lay.nodes = <<>> THEN [f.lay EXCEPT !.nodes = DefaultNodes(f.lay.zone)]
  ELSE f.lay

InitEditor ==
  /\ presets = <<SeedPreset>> /\ active = 1
  /\ lay = LoadLayout(NoFile, presets) /\ view = Blank
  /\ uid = SeedUid /\ dirty = FALSE /\ file = NoFile /\ pfile = NoFile
  /\ foreign = FALSE /\ rekinded = FALSE

\* The dashboard ends and starts again; a write may be cut short.
Reopen(f) ==
  /\ presets' = LoadPresets(pfile)
  /\ lay' = LoadLayout(f, presets') /\ file' = f
  /\ active' = IF f.there /\ f.active \in DOMAIN presets' THEN f.active ELSE 1
  /\ uid' = IF pfile.there THEN RestartUid ELSE SeedUid
  /\ view' = Blank /\ dirty' = FALSE
  /\ UNCHANGED <<pfile, foreign, rekinded>>

-----------------------------------------------------------------------------
(* What every edit does                                                    *)

\* refresh_race forgets a selection that is gone.
Seen(l, v) == IF v.sel \in IdSet(l) THEN v ELSE [v EXCEPT !.sel = NoSel]

MarkDirty(l) == dirty' = TRUE /\ file' = Snapshot(l)

Edit(l, v) ==
  /\ lay' = l /\ view' = Seen(l, v) /\ MarkDirty(l)
  /\ foreign' = (foreign \/ ~UniqueIds(l))
  /\ UNCHANGED <<presets, active, pfile>>

Plainly == UNCHANGED <<uid, rekinded>>

View(v) ==
  /\ view' = v
  /\ UNCHANGED <<lay, presets, active, uid, dirty, file, pfile, foreign, rekinded>>

Selected == view.sel \in IdSet(lay)
Picked   == lay.nodes[At(lay, view.sel)]

\* with_selected
WithSelected(n) == IF Selected THEN [lay EXCEPT !.nodes[At(lay, view.sel)] = n] ELSE lay

HasElem == Selected /\ view.elem \in DOMAIN Picked.els

\* with_sel_elem
WithElem(e) == IF HasElem THEN WithSelected([Picked EXCEPT !.els[view.elem] = e]) ELSE lay

Tabbed   == lay.tabs[view.disp] > 0
OnDisplay(n) == n.disp = view.disp
Visible  == {n \in Range(lay.nodes) : OnDisplay(n) /\ (Tabbed => n.page = view.tab)}

-----------------------------------------------------------------------------
(* Adding and removing                                                     *)

\* The joystick number of a widget (k = 0) or of its k-th element, 0 for none.
NumberAt(n, k) ==
  LET x == IF k = 0 THEN [kind |-> n.kind, hid |-> n.hid] ELSE n.els[k]
  IN  IF x.kind = "button" THEN x.hid ELSE 0

Hids(n) == {NumberAt(n, k) : k \in 0..Len(n.els)} \ {0}

\* The scan of on_node_add without the elements.
TakenByNodes(l) == {n.hid : n \in {m \in Range(l.nodes) : m.kind = "button"}}

Taken(l) == UNION {Hids(n) : n \in Range(l.nodes)}

FreeHids(l)   == 1..MaxHid \ Taken(l)
FreeHid(l, i) == IF i <= Cardinality(FreeHids(l)) THEN Nth(FreeHids(l), i) ELSE 0

NodeAdd ==
  \E k \in DOMAIN Size :
    LET page == IF Tabbed THEN view.tab ELSE 0
        n    == Cardinality({i \in DOMAIN lay.nodes : OnDisplay(lay.nodes[i]) /\ lay.nodes[i].page = page})
        x    == Clamp(Corner + (n % Around) * Step, 0, Canvas - Size[k])
        hid  == IF k = "button" THEN FreeHid(lay, 1) ELSE 0
        new  == Widget(<<k, uid>>, k, view.disp, page, hid, x, Size[k])
    IN  /\ Edit([lay EXCEPT !.nodes = Append(@, new)], [view EXCEPT !.sel = new.id])
        /\ uid' = uid + 1 /\ UNCHANGED rekinded

AddButtonGrid ==
  LET page    == IF Tabbed THEN view.tab ELSE 0
      cell    == (Canvas - Gap * (Columns + 1)) \div Columns
      Button(c) == Widget(<<"button", uid + c - 1>>, "button", view.disp, page, FreeHid(lay, c),
                          Gap + (c - 1) * (cell + Gap), cell)
  IN  /\ Edit([lay EXCEPT !.nodes = @ \o [c \in 1..Columns |-> Button(c)]],
              [view EXCEPT !.sel = <<"button", uid + Columns - 1>>])
      /\ uid' = uid + Columns /\ UNCHANGED rekinded

\* retain: the elements of a sequence that are in S.
Retained(s, S) ==
  LET K == {i \in DOMAIN s : s[i] \in S} IN [a \in 1..Cardinality(K) |-> s[Nth(K, a)]]

Without(l, id) == [l EXCEPT !.nodes = Retained(@, {n \in Range(@) : n.id # id})]

NodeRemove ==
  /\ Selected /\ Edit(Without(lay, view.sel), view)
  /\ Plainly

\* The Delete key.
DeleteSelected ==
  /\ \/ /\ view.elem > 0
        /\ Edit(IF HasElem THEN WithSelected([Picked EXCEPT !.els = RemoveAt(@, view.elem)]) ELSE lay,
                [view EXCEPT !.elem = 0])
     \/ /\ view.elem = 0 /\ view.sel # NoSel
        /\ Edit(Without(lay, view.sel), view)
  /\ Plainly

NodeSelect == \E n \in Visible : n.id # view.sel /\ View([view EXCEPT !.sel = n.id, !.elem = 0])

-----------------------------------------------------------------------------
(* Geometry                                                                *)

\* A press on the box or on its corner handle, which selects the widget too.
DragStart ==
  \E n \in Visible, by \in {"box", "corner"} :
    LET m == lay.nodes[At(lay, n.id)]
    IN  View([view EXCEPT !.sel = n.id, !.elem = 0, !.drag = [by |-> by, id |-> n.id, x |-> m.x, w |-> m.w]])

Dragging == view.drag # NoDrag
Dragged  == lay.nodes[At(lay, view.drag.id)]

\* During the gesture the state changes and nothing is saved.
Drag(n) ==
  /\ lay' = IF view.drag.id \in IdSet(lay) THEN [lay EXCEPT !.nodes[At(lay, view.drag.id)] = n] ELSE lay
  /\ UNCHANGED <<view, presets, active, uid, dirty, file, pfile, foreign, rekinded>>

Dist(a, b) == IF a < b THEN b - a ELSE a - b

\* Guides without the edges of the screen.
GuidesInside(others) == {Canvas \div 2} \cup UNION {{n.x, n.x + n.w \div 2, n.x + n.w} : n \in others}

Guides(others) == {0, Canvas \div 2, Canvas} \cup UNION {{n.x, n.x + n.w \div 2, n.x + n.w} : n \in others}

\* snap_pos: where a widget at x may snap; of guides equally near, any.
Snapped(x, w, others) ==
  LET moves   == {g - e : g \in Guides(others), e \in {x, x + w \div 2, x + w}}
      nearest == {m \in moves : \A o \in moves : Dist(m, 0) <= Dist(o, 0)}
  IN  {x + m : m \in {m \in nearest : Dist(m, 0) <= Snap}} \cup (IF \A m \in nearest : Dist(m, 0) > Snap THEN {x} ELSE {})

NodeSnap ==
  /\ view.drag.by = "box"
  /\ \E d \in Nudges :
       LET raw    == Clamp(view.drag.x + d, 0, Canvas - view.drag.w)
           others == {n \in Range(lay.nodes) : n.id # view.drag.id /\ OnDisplay(n)}
       IN  \E x \in Snapped(raw, view.drag.w, others) :
             Drag([Dragged EXCEPT !.x = x])

\* clamp panics when its bounds cross.
ResizeFits == view.drag.by = "corner" /\ view.drag.id \in IdSet(lay) => MinSize <= Canvas - Dragged.x

NodeResize ==
  /\ view.drag.by = "corner"
  /\ \E d \in Nudges :
       Drag([Dragged EXCEPT !.w = Clamp(view.drag.w + d, MinSize, Canvas - Dragged.x)])

DragEnd ==
  /\ Dragging
  /\ LET changed == /\ view.drag.id \in IdSet(lay)
                    /\ (Dragged.x # view.drag.x \/ Dragged.w # view.drag.w)
         v       == [view EXCEPT !.drag = NoDrag]
     IN  IF changed THEN Edit(lay, v) /\ Plainly ELSE View(Seen(lay, v))

Center == Edit(WithSelected([Picked EXCEPT !.x = (Canvas - Picked.w) \div 2]), view) /\ Plainly

\* align_node: to the nearest other centre of the display.
Align ==
  LET mid(n)  == n.x + n.w \div 2
      centres == {mid(n) : n \in {m \in Range(lay.nodes) : m.id # view.sel /\ OnDisplay(m)}}
  IN  /\ Selected
      /\ \E c \in centres :
           /\ \A o \in centres : Dist(c, mid(Picked)) <= Dist(o, mid(Picked))
           /\ Edit(WithSelected([Picked EXCEPT !.x = Clamp(c - Picked.w \div 2, 0, Canvas - Picked.w)]), view)
      /\ Plainly

SetGeo ==
  /\ \E x \in Nudges, v \in Nudges :
       LET w == Clamp(v, MinSize, Canvas)
       IN  Edit(WithSelected([Picked EXCEPT !.w = w, !.x = Clamp(x, 0, Canvas - w)]), view)
  /\ Plainly

-----------------------------------------------------------------------------
(* Displays and tab pages                                                  *)

SwitchDisplay ==
  \E d \in Displays : d # view.disp /\ View([view EXCEPT !.disp = d, !.tab = 0, !.elem = 0, !.sel = NoSel])

SetTabs(l, n) == [l EXCEPT !.tabs[view.disp] = n]
Repage(l, P(_)) ==
  [l EXCEPT !.nodes = [i \in DOMAIN l.nodes |-> IF OnDisplay(l.nodes[i])
                                                THEN [l.nodes[i] EXCEPT !.page = P(l.nodes[i].page)] ELSE l.nodes[i]]]

TabsEnable ==
  /\ IF Tabbed THEN Edit(Repage(SetTabs(lay, 0), LAMBDA p : 0), [view EXCEPT !.tab = 0])
     ELSE Edit(SetTabs(lay, 1), [view EXCEPT !.tab = 0])
  /\ Plainly

TabAdd ==
  /\ LET n == lay.tabs[view.disp]
     IN  IF n < MaxTabs THEN Edit(SetTabs(lay, n + 1), [view EXCEPT !.tab = n]) ELSE Edit(lay, view)
  /\ Plainly

\* The page is dropped, the pages after it keep their number.
RemovedUnshifted(l, t) ==
  [SetTabs(l, l.tabs[view.disp] - 1) EXCEPT !.nodes = Retained(@, {n \in Range(@) : ~(OnDisplay(n) /\ n.page = t)})]

Removed(l, t) == Repage(RemovedUnshifted(l, t), LAMBDA p : IF p > t THEN p - 1 ELSE p)

TabRemove ==
  /\ LET n == lay.tabs[view.disp]
     IN  /\ n > 1
         /\ \E t \in 0..(n - 1) :
              Edit(Removed(lay, t), [view EXCEPT !.sel = NoSel, !.tab = Clamp(@, 0, n - 2)])
  /\ Plainly

\* The tabs t and j change places: widgets and the edited page follow theirs.
SwapOneWay(p, t, j) == IF p = t THEN j ELSE p
Swap(p, t, j) == IF p = t THEN j ELSE IF p = j THEN t ELSE p

TabMove ==
  /\ \E t \in 0..(lay.tabs[view.disp] - 1), j \in 0..(lay.tabs[view.disp] - 1) :
       /\ j \in {t - 1, t + 1}
       /\ Edit(Repage(lay, LAMBDA p : Swap(p, t, j)), [view EXCEPT !.tab = Swap(@, t, j)])
  /\ Plainly

TabSelect ==
  \E t \in 0..(lay.tabs[view.disp] - 1) :
    t # view.tab /\ View([view EXCEPT !.tab = t, !.elem = 0, !.sel = NoSel])

SetModPage ==
  /\ \E p \in 0..MaxTabs :
       LET last == lay.tabs[view.disp] - 1
       IN  Edit(WithSelected([Picked EXCEPT !.page = Clamp(p, 0, IF last < 0 THEN 0 ELSE last)]), view)
  /\ Plainly

-----------------------------------------------------------------------------
(* Attributes of a widget and of its elements                              *)

Elem(kind) == [kind |-> kind, hid |-> 0]

\* default_els: the joystick number of a button is not taken over.
DefaultEls(n) == IF n.kind = "stat" THEN <<Elem("label"), Elem("value")>> ELSE <<Elem(n.kind)>>

\* The user gives a number no other button has.
SetModHid ==
  /\ Selected /\ Picked.kind = "button" /\ Picked.els = <<>>
  /\ \E h \in 0..MaxHid \ Taken(lay) : Edit(WithSelected([Picked EXCEPT !.hid = h]), view)
  /\ Plainly

SetModKind ==
  /\ Selected /\ Picked.els = <<>>
  /\ \E k \in DOMAIN Size : Edit(WithSelected([Picked EXCEPT !.kind = k]), view)
  /\ rekinded' = TRUE /\ UNCHANGED uid

SetModText ==
  /\ \E t \in Texts : Edit(WithSelected([Picked EXCEPT !.text = t]), view)
  /\ Plainly

Customize ==
  /\ IF Selected /\ Picked.els = <<>> THEN Edit(WithSelected([Picked EXCEPT !.els = DefaultEls(Picked)]), [view EXCEPT !.elem = 1])
     ELSE Edit(lay, view)
  /\ Plainly

WidgetReset == Edit(WithSelected([Picked EXCEPT !.els = <<>>]), [view EXCEPT !.elem = 0]) /\ Plainly

ElemAdd ==
  /\ Selected
  /\ \E k \in {"label", "button"} :
       Edit(WithSelected([Picked EXCEPT !.els = Append(@, Elem(k))]), [view EXCEPT !.elem = Len(Picked.els) + 1])
  /\ Plainly

ElemRemove ==
  /\ Selected
  /\ \E i \in DOMAIN Picked.els : Edit(WithSelected([Picked EXCEPT !.els = RemoveAt(@, i)]), [view EXCEPT !.elem = 0])
  /\ Plainly

ElemMove ==
  /\ Selected
  /\ \E i \in DOMAIN Picked.els, j \in DOMAIN Picked.els :
       /\ j \in {i - 1, i + 1}
       /\ Edit(WithSelected([Picked EXCEPT !.els = [@ EXCEPT ![i] = Picked.els[j], ![j] = Picked.els[i]]]), [view EXCEPT !.elem = j])
  /\ Plainly

ElemSelect == Selected /\ \E i \in DOMAIN Picked.els : i # view.elem /\ View([view EXCEPT !.elem = i])

SetElemKind ==
  /\ HasElem
  /\ \E k \in {"label", "button"} : Edit(WithElem([Picked.els[view.elem] EXCEPT !.kind = k]), view)
  /\ rekinded' = TRUE /\ UNCHANGED uid

SetElemHid ==
  /\ HasElem /\ Picked.els[view.elem].kind = "button"
  /\ \E h \in 0..MaxHid \ Taken(lay) : Edit(WithElem([Picked.els[view.elem] EXCEPT !.hid = h]), view)
  /\ Plainly

-----------------------------------------------------------------------------
(* Presets                                                                 *)

SelectPreset ==
  /\ \E i \in DOMAIN presets :
       LET l == [lay EXCEPT !.zone = presets[i].zone, !.nodes = presets[i].nodes]
       IN  /\ lay' = l /\ active' = i
           /\ file' = [there |-> TRUE, lay |-> l, active |-> i]
  /\ view' = [view EXCEPT !.sel = NoSel] /\ dirty' = FALSE /\ foreign' = TRUE
  /\ UNCHANGED <<presets, uid, pfile, rekinded>>

SavePresets(ps, a) ==
  /\ presets' = ps /\ active' = a /\ pfile' = PresetFile(ps)
  /\ UNCHANGED <<lay, view, uid, file, foreign, rekinded>>

Current(b) == [builtin |-> b, zone |-> lay.zone, nodes |-> lay.nodes]

NewPreset    == SavePresets(Append(presets, Current(FALSE)), Len(presets) + 1) /\ dirty' = FALSE
UpdatePreset == SavePresets([presets EXCEPT ![active] = Current(@.builtin)], active) /\ dirty' = FALSE

\* The active preset keeps its place in the list, not its preset.
DeletePreset ==
  /\ \E i \in DOMAIN presets :
       /\ ~presets[i].builtin
       /\ LET ps == RemoveAt(presets, i) IN SavePresets(ps, IF active > Len(ps) THEN 1 ELSE active)
  /\ UNCHANGED dirty

-----------------------------------------------------------------------------
(* Layouts of the device                                                   *)

\* refresh_race makes the boxes of the widgets anew, which ends a gesture.
Redrawn(l) == [Seen(l, view) EXCEPT !.drag = NoDrag]

\* apply_editor_layout_json: new ids; the page that is edited stays.
ApplyLayout(d) ==
  LET l == [d.lay EXCEPT !.nodes = [i \in DOMAIN @ |-> [@[i] EXCEPT !.id = <<"m", uid + i - 1>>]]]
  IN  /\ lay' = l /\ uid' = uid + Len(l.nodes)
      /\ view' = Redrawn(l) /\ dirty' = FALSE /\ file' = Snapshot(l) /\ foreign' = TRUE
      /\ UNCHANGED <<presets, active, pfile, rekinded>>

\* race_layout_from_json: the zones, and widgets only when there are none.
ApplyZones ==
  LET z == <<"m", uid>>
      l == [lay EXCEPT !.zone = z, !.nodes = IF @ = <<>> THEN DefaultNodes(z) ELSE @]
  IN  /\ lay' = l /\ uid' = uid + 1
      /\ view' = Redrawn(l) /\ dirty' = FALSE /\ file' = Snapshot(l)
      /\ UNCHANGED <<presets, active, pfile, foreign, rekinded>>

-----------------------------------------------------------------------------
(* Properties                                                              *)

\* What a widget is, with elements and on the canvas, and what a layout is.
Kinds    == DOMAIN Size \cup {"label", "value", "button"}
Elements == [kind : Kinds, hid : 0..MaxHid]
Nodes    == {n \in [id : Ids, kind : DOMAIN Size, disp : Displays, page : Nat, hid : 0..MaxHid, x : Nat, w : Nat,
                    els : Seq(Elements), text : Texts \cup {"plain"}] : n.w >= MinSize /\ n.x + n.w <= Canvas}
Layouts  == [nodes : Seq(Nodes), tabs : [Displays -> 0..MaxTabs], zone : Ids]

\* No two of the buttons, widgets or elements, have one joystick number.
Distinct(nodes) ==
  \A i, j \in DOMAIN nodes : \A k \in 0..Len(nodes[i].els), m \in 0..Len(nodes[j].els) :
    NumberAt(nodes[i], k) = NumberAt(nodes[j], m) => NumberAt(nodes[i], k) = 0 \/ (i = j /\ k = m)

\* A layout of the editor; r: the user has changed a kind.
Fine(l, r) == l \in Layouts /\ (~r => Distinct(l.nodes))

\* Every widget is on a page that its display has.
Paged(l) == \A n \in Range(l.nodes) : n.page = 0 \/ n.page < l.tabs[n.disp]

EditorTypeOK ==
  /\ \A n \in Range(lay.nodes) : n.kind \in DOMAIN Size /\ n.disp \in Displays /\ n.page \in Nat /\ n.hid \in 0..MaxHid
  /\ lay.tabs \in [Displays -> 0..MaxTabs] /\ view.disp \in Displays /\ view.tab \in Nat /\ view.elem \in Nat
  /\ active \in DOMAIN presets /\ uid \in Nat /\ dirty \in BOOLEAN

\* Through dragging, snapping to other widgets, resizing, typed numbers,
\* alignment, grids and presets, every widget stays on its screen with at
\* least the smallest size; so the bounds of the next resize never cross,
\* where clamp would end the dashboard (snap_pos, on_node_resize).
OnCanvas ==
  /\ EditorTypeOK
  /\ \A n \in Range(lay.nodes) : n.x >= 0 /\ n.w >= MinSize /\ n.x + n.w <= Canvas
  /\ ResizeFits

\* Buttons get numbers "so two buttons never share an index and
\* adding/removing one never shifts the others": with hands off the kinds, and
\* with numbers the user picks among the free ones, no two buttons press the
\* same joystick button, whether they are widgets or elements, on whatever
\* display (on_node_add, on_add_button_grid).
HidsDistinct == ~rekinded => Distinct(lay.nodes)

\* Adding, moving and removing tabs leaves no widget on a page that does not
\* exist, where neither the editor nor the device would show it; the page that
\* is edited exists too.  A preset brings widgets and no tabs, and a layout of
\* the device leaves the edited page, and of two widgets with one id only the
\* first is moved: then it does not hold (on_tabs_enable, on_tab_add,
\* on_tab_remove, on_tab_move).
PagesExist == ~foreign => Paged(lay) /\ (view.tab = 0 \/ view.tab < lay.tabs[view.disp])

\* The widgets that an edit keeps, and what becomes of one.
Stay     == {n \in Range(lay.nodes) : n.id \in IdSet(lay')}
After(n) == lay'.nodes[At(lay', n.id)]

\* "Nodes follow their tab": widgets that share a tab share it after every edit
\* while the display has tabs, and those that do not still do not, however tabs
\* are added, moved and removed under them; and when a tab is moved, the widgets
\* that were being edited are the ones that are edited, so the edited page goes
\* with its tab.  Excepted are the widget the user himself sends to another tab,
\* and widgets or edited pages that PagesExist excepts (on_tab_move,
\* on_tab_remove).
TabsStayWhole ==
  [][~foreign' /\ dirty' /\ ~SetModPage =>
       /\ \A n, m \in Stay : n.disp = m.disp /\ lay'.tabs[n.disp] > 0 =>
            ((n.page = m.page) <=> (After(n).page = After(m).page))
       /\ TabMove => \A n \in Visible : After(n) \in Visible']_editor
=============================================================================
