----------------------------- MODULE MCSyslinux -----------------------------
(***************************************************************************)
(* A server that has the file, of known or unknown length, that sends a    *)
(* part of it, redirects or has it not; modules with a dependency in       *)
(* common, one of them wrong in each of the ways module_load looks for;    *)
(* menus with disabled entries, submenus, passwords and timeouts.          *)
(***************************************************************************)
EXTENDS Syslinux

MCReplies ==
  {[kind |-> "file", len |-> n, sent |-> n, size |-> s] : n \in {4}, s \in {-1, 4}}
    \cup {[kind |-> "file", len |-> 4, sent |-> 2, size |-> 4],
          [kind |-> "redirect", len |-> 0, sent |-> 0, size |-> 0],
          [kind |-> "missing", len |-> 0, sent |-> 0, size |-> 0]}

MCResident == <<"core">>
MCNeeded == [m \in {"menu", "libutil", "libcom32"} |->
               CASE m = "menu" -> <<"libutil", "libcom32">>
                 [] m = "libutil" -> <<"libcom32">>
                 [] OTHER -> <<>>]
MCDisks ==
  {[needed |-> MCNeeded,
    wrong |-> [m \in {"menu", "libutil", "libcom32"} |-> IF m = bad THEN how ELSE "nothing"]] :
     bad \in {"menu", "libutil", "libcom32"},
     how \in {"nothing", "header", "needs", "symbols", "ctors"}}

MCNames == UNION {[1 .. n -> {"a", "/"}] : n \in 0 .. 4} \cup {<<":", ":", "a">>, <<":", ":", "a", "/">>}

E(action) == [action |-> action, passwd |-> FALSE, save |-> FALSE, label |-> "l", submenu |-> NULL,
              immediate |-> FALSE]
Secret(e) == [e EXCEPT !.passwd = TRUE]
To(action, m) == [E(action) EXCEPT !.submenu = m]
Saved(e, label) == [e EXCEPT !.save = TRUE, !.label = label]

M(entries, defentry, timeout, ontimeout, hotkeys) ==
  [entries |-> entries, defentry |-> defentry, timeout |-> timeout, ontimeout |-> ontimeout,
   hotkeys |-> hotkeys]

AllKeys == {"enter", "F1", "other", "x"} \cup Cursor
Disabled == E("MA_DISABLED")
Cmd == E("MA_CMD")

\* All ways to disable some of five entries, for the cursor.
MCMoves ==
  {[menus |-> [main |-> M([i \in 1 .. 5 |-> IF i \in off THEN Disabled ELSE Cmd], d, 0, FALSE,
                          [k \in {} |-> 0])],
    start |-> "main", total |-> 0, hidden |-> FALSE, hidekey |-> FALSE, shift |-> FALSE,
    keys |-> AllKeys] : off \in SUBSET (1 .. 5), d \in {0, 2}}

MCMain == <<Saved(Secret(Cmd), "a"), To("MA_SUBMENU", "sub"), Disabled, Saved(Cmd, "b"), E("MA_HELP")>>
MCSub == <<[Secret(Cmd) EXCEPT !.immediate = TRUE], To("MA_EXIT", "main"), E("MA_QUIT")>>

\* Submenus, passwords, hotkeys and timeouts.
MCTimes ==
  {[menus |-> [main |-> M(MCMain, d, t, o, [k \in {"x"} |-> 3]),
               sub |-> M(MCSub, 1, t, FALSE, [k \in {"x"} |-> 0])],
    start |-> "main", total |-> tt, hidden |-> h, hidekey |-> (h /\ o), shift |-> (s /\ tt = 0),
    keys |-> {"enter", "other", "x", "up", "+", "F1"}] :
     d \in {0, 1, 3}, t \in {0, 3}, o \in BOOLEAN, tt \in {0, 4}, h \in BOOLEAN, s \in BOOLEAN}

MCMenuConfigs == MCMoves \cup MCTimes

=============================================================================
