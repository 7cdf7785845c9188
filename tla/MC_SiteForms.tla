---------------------------- MODULE MC_SiteForms ----------------------------
(***************************************************************************)
(* Small instances of SiteForms.  Forms whose runs are short get more      *)
(* presses and outside events; the browser wallet is put under a form of   *)
(* each kind.                                                              *)
(***************************************************************************)
EXTENDS SiteForms

At2(f, w, n, m) == [form |-> f, wallet |-> w, runs |-> n, events |-> m]

MCPages ==
    {At2(f, "extension", 2, 1) : f \in {"exactIn", "exactOut", "buy13", "sell13"}}
    \cup {At2(f, "extension", 1, 2) : f \in {"buy14", "sell14", "bridge"}}
    \cup {At2(f, "extension", 2, 2) : f \in {"create", "add", "remove", "fees"}}
    \cup {At2("exactIn", "browser", 1, 1), At2("remove", "browser", 1, 2),
          At2("fees", "browser", 2, 2)}

MCPrices == {2, 3, 4}
=============================================================================
