-------------------------------- MODULE Hud --------------------------------
(***************************************************************************)
(* The surfaces over the map, on a wide screen and on a narrow one: the    *)
(* drawers and the tools of a narrow screen, the menus of the top bar, the *)
(* sidebars that follow the selection, the analyst panel and the article   *)
(* viewer (frontend/src/App.tsx, components/layouts/MainHud.tsx,           *)
(* components/layouts/TopBar.tsx).  Every handler closes the others by     *)
(* hand.                                                                   *)
(***************************************************************************)
EXTENDS Naturals

CONSTANTS
  MaxSteps,     \* bound on what the user does
  Articles

Views == {"TACTICAL", "ORBITAL", "INTEL", "DASHBOARD", "RADIO"}
MapViews == {"TACTICAL", "ORBITAL", "INTEL"}
Menus == {"terminal", "alerts", "settings", "health", "user"}
Nothing == 0

VARIABLES
  view,
  compact,     \* the narrow layout
  panel,       \* the drawer: "map" is none
  tools,       \* toolsOpen
  menus,       \* the menus of the top bar and the terminal
  selected,    \* "none", "thing" or "sitrep"
  analyst,     \* the analyst panel is open
  article,     \* activeIntelArticle
  content,     \* the article the text is of
  fetching,    \* articles asked for, not aborted
  loading,     \* intelArticleLoading
  resized,     \* history: the layout has changed
  steps

surfaces == <<panel, tools, menus>>
reader == <<article, content, fetching, loading>>
vars == <<view, compact, surfaces, selected, analyst, reader, resized, steps>>

TypeOK ==
  /\ view \in Views /\ compact \in BOOLEAN /\ panel \in {"map", "left", "right", "status"}
  /\ tools \in BOOLEAN /\ menus \subseteq Menus
  /\ selected \in {"none", "thing", "sitrep"} /\ analyst \in BOOLEAN
  /\ article \in Articles \cup {Nothing} /\ content \in Articles \cup {Nothing}
  /\ fetching \subseteq Articles /\ loading \in BOOLEAN
  /\ resized \in BOOLEAN /\ steps \in 0..MaxSteps

Init ==
  /\ view \in Views /\ compact \in BOOLEAN /\ panel = "map" /\ tools = FALSE /\ menus = {}
  /\ selected = "none" /\ analyst = FALSE
  /\ article = Nothing /\ content = Nothing /\ fetching = {} /\ loading = FALSE
  /\ resized = FALSE /\ steps = 0

(* The sidebars there are.                                                 *)
HasLeft == view \in MapViews
HasRight ==
  \/ selected = "thing" /\ view \in MapViews
  \/ view = "INTEL" /\ ~ (analyst /\ selected = "sitrep")
HasStatus == view \in {"TACTICAL", "ORBITAL"}
Has(p) == (p = "left" => HasLeft) /\ (p = "right" => HasRight) /\ (p = "status" => HasStatus)

User == steps < MaxSteps /\ steps' = steps + 1

-----------------------------------------------------------------------------
(* Drawers, tools and menus.                                               *)

CloseMenus == menus' = {}
CloseDrawers == panel' = "map" /\ tools' = FALSE

(* openPanel: a button of the dock.                                        *)
OpenPanel(p) ==
  /\ User /\ compact /\ Has(p) /\ view \in MapViews
  /\ panel' = (IF panel = p THEN "map" ELSE p) /\ tools' = FALSE /\ CloseMenus
  /\ UNCHANGED <<view, compact, selected, analyst, reader, resized>>

ClosePanel ==
  /\ User /\ compact /\ panel # "map" /\ panel' = "map"
  /\ UNCHANGED <<view, compact, tools, menus, selected, analyst, reader, resized>>

(* setToolsOpen of the navigation context.                                 *)
ToggleTools ==
  /\ User /\ compact /\ tools' = ~ tools /\ panel' = "map"
  /\ menus' = IF tools THEN menus ELSE {}
  /\ UNCHANGED <<view, compact, selected, analyst, reader, resized>>

(* openMenu with the handler of one menu, which closes the others.         *)
ToggleMenu(m) ==
  /\ User /\ CloseDrawers
  /\ menus' = IF m \in menus THEN {} ELSE {m}
  /\ UNCHANGED <<view, compact, selected, analyst, reader, resized>>

CloseMenu(m) ==
  /\ User /\ m \in menus /\ menus' = menus \ {m}
  /\ UNCHANGED <<view, compact, panel, tools, selected, analyst, reader, resized>>

Escape ==
  /\ User /\ CloseDrawers /\ CloseMenus
  /\ UNCHANGED <<view, compact, selected, analyst, reader, resized>>

(* The effects of the layout run for a change of selection only.           *)
Resize ==
  /\ User /\ compact' = ~ compact /\ resized' = TRUE
  /\ UNCHANGED <<view, surfaces, selected, analyst, reader>>

-----------------------------------------------------------------------------
(* The selection.                                                          *)

(* The effect of a new selection key, and of none.                         *)
SelectionEffect ==
  IF compact /\ selected' = "thing"
  THEN panel' = "right" /\ tools' = FALSE /\ CloseMenus
  ELSE /\ panel' = (IF compact /\ selected = "thing" /\ panel = "right" THEN "map" ELSE panel)
       /\ UNCHANGED <<tools, menus>>

(* On the map or in a list; also of what is selected already.              *)
SelectEntity ==
  /\ User /\ view \in MapViews /\ selected' = "thing" /\ SelectionEffect
  /\ UNCHANGED <<view, compact, analyst, reader, resized>>

Deselect ==
  /\ User /\ selected = "thing" /\ selected' = "none" /\ SelectionEffect
  /\ UNCHANGED <<view, compact, analyst, reader, resized>>

GenerateSitrep ==
  /\ User /\ view = "INTEL" /\ (compact => panel = "left")
  /\ selected' = "sitrep" /\ analyst' = TRUE /\ SelectionEffect
  /\ UNCHANGED <<view, compact, reader, resized>>

OpenAnalyst ==
  /\ User /\ selected = "thing" /\ (compact => panel = "right") /\ analyst' = TRUE
  /\ UNCHANGED <<view, compact, surfaces, selected, reader, resized>>

CloseAnalyst ==
  /\ User /\ analyst /\ analyst' = FALSE
  /\ selected' = (IF selected = "sitrep" THEN "none" ELSE selected)
  /\ UNCHANGED <<view, compact, surfaces, reader, resized>>

-----------------------------------------------------------------------------
(* The view.                                                               *)

(* The effects of a change of view: the analyst, the selection, and where  *)
(* there is no viewer the article.                                         *)
ViewEffects(v, p) ==
  /\ analyst' = FALSE /\ selected' = "none"
  /\ panel' = (IF compact /\ selected = "thing" /\ p = "right" THEN "map" ELSE p)
  /\ IF v \in {"INTEL", "TACTICAL"} THEN UNCHANGED reader
     ELSE article' = Nothing /\ content' = Nothing /\ fetching' = {} /\ loading' = FALSE

(* The tabs of a wide screen leave the menus.                              *)
SwitchTab(v) ==
  /\ User /\ ~ compact /\ v # view /\ view' = v /\ ViewEffects(v, panel)
  /\ UNCHANGED <<compact, tools, menus, resized>>

(* The bar of a narrow one closes all; whether the terminal is open it is  *)
(* not told.                                                               *)
SwitchMobile(v) ==
  /\ User /\ compact /\ v # view /\ view' = v /\ tools' = FALSE
  /\ menus' = menus \cap {"terminal"} /\ ViewEffects(v, "map")
  /\ UNCHANGED <<compact, resized>>

-----------------------------------------------------------------------------
(* The article viewer.                                                     *)

OpenArticle(a) ==
  /\ User /\ view = "INTEL" /\ (compact => panel = "right") /\ article' = a
  /\ fetching' = {a} /\ loading' = TRUE
  /\ UNCHANGED <<view, compact, surfaces, selected, analyst, content, resized>>

CloseArticle ==
  /\ User /\ article # Nothing
  /\ article' = Nothing /\ content' = Nothing /\ fetching' = {} /\ loading' = FALSE
  /\ UNCHANGED <<view, compact, surfaces, selected, analyst, resized>>

ArticleAnswer(a) ==
  /\ a \in fetching /\ fetching' = fetching \ {a} /\ loading' = FALSE
  /\ content' \in {a, Nothing}      \* Nothing: refused or lost, with a message
  /\ UNCHANGED <<view, compact, surfaces, selected, analyst, article, resized, steps>>

Next ==
  \/ ClosePanel \/ ToggleTools \/ Escape \/ Resize
  \/ SelectEntity \/ Deselect \/ GenerateSitrep \/ OpenAnalyst \/ CloseAnalyst \/ CloseArticle
  \/ \E p \in {"map", "left", "right", "status"} : OpenPanel(p)
  \/ \E m \in Menus : ToggleMenu(m) \/ CloseMenu(m)
  \/ \E v \in Views : SwitchTab(v) \/ SwitchMobile(v)
  \/ \E a \in Articles : OpenArticle(a) \/ ArticleAnswer(a)

-----------------------------------------------------------------------------
(* Properties.                                                             *)

(* Of the drawers, the tools and the menus one is open at most, whatever   *)
(* opened it and through changes of layout; and until the layout changes   *)
(* the drawer that is open has something in it.                            *)
OneSurface ==
  /\ \A m, n \in menus : m = n
  /\ menus # {} => ~ tools /\ panel = "map"
  /\ tools => panel = "map"
  /\ ~ resized => Has(panel)

(* The viewer shows the text of the article it names, or says that it is   *)
(* loading, and a report on the screen has the panel that writes it.       *)
ShownTogether ==
  /\ ~ loading /\ content # Nothing => content = article
  /\ loading => article \in fetching
  /\ selected = "sitrep" => analyst
=============================================================================
