----------------------------- MODULE MCBrowser -----------------------------
(***************************************************************************)
(* HaikuBrowser for TLC.  A content is 2 or 5 high and the toolbar 1, so   *)
(* that no mixture of the three makes a size that was asked for.  Each     *)
(* budget lets one part of the process run far, and the last mixes them.   *)
(***************************************************************************)
EXTENDS HaikuBrowser

CONSTANTS w1, w2, news, mail

MCWindows == {w1, w2}
MCPages == {news, mail}
MCInstallable == {mail}

Budget(sizes, open, window, close, viz, pages, install, store, clip,
       die) ==
    [sizes |-> sizes, open |-> open, window |-> window, close |-> close,
     viz |-> viz, page |-> pages, install |-> install, store |-> store,
     clip |-> clip, die |-> die]

MCBudgets ==
    {Budget(1, 1, 3, 0, 0, 0, 0, 0, 0, 0),
     Budget(1, 1, 1, 2, 0, 0, 0, 0, 0, 0),
     Budget(0, 2, 1, 1, 0, 0, 0, 0, 0, 0),
     Budget(0, 2, 0, 1, 4, 0, 0, 0, 0, 0),
     Budget(0, 1, 1, 0, 4, 0, 0, 0, 0, 0),
     Budget(0, 1, 0, 1, 0, 5, 2, 0, 0, 0),
     Budget(0, 1, 0, 0, 0, 7, 1, 0, 0, 0),
     Budget(0, 2, 0, 0, 0, 4, 0, 2, 0, 1),
     Budget(0, 1, 0, 0, 0, 3, 0, 3, 0, 1),
     Budget(0, 1, 0, 1, 0, 0, 0, 0, 4, 1),
     Budget(0, 1, 1, 1, 0, 2, 1, 1, 0, 0)}

=============================================================================
