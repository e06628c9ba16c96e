------------------------------ MODULE MCCockpit ------------------------------
(* Two conversations, of which none, one, or one and an archived one exist *)
(* when Ask is opened.                                                     *)
EXTENDS Cockpit

MCConversations == {"c1", "c2"}

MCStart ==
  LET none == [c \in MCConversations |-> NoRow]
      one == [none EXCEPT !["c1"] = NewConversation("default")]
  IN {none, one,
      [one EXCEPT !["c2"] = [NewConversation("chosen") EXCEPT !.status = "archived"]]}
-----------------------------------------------------------------------------
(* An update about a possible account, and one about a program.            *)
MCFeatures ==
  [u1 |-> [relation |-> "candidate", program |-> FALSE, high |-> TRUE, fresh |-> TRUE],
   u2 |-> [relation |-> "market", program |-> TRUE, high |-> FALSE, fresh |-> FALSE]]

(* The second company and the contact have the same number.                *)
MCIds == [company |-> {1, 2}, contact |-> {2}]
MCWorldIds == [company |-> {1}, contact |-> {2}]
MCSearches == [name |-> {2}]
-----------------------------------------------------------------------------
MCAddresses ==
  {Place(""), Place("elsewhere"), About("map", "a1"), About("prospecting", "a1"),
   Under("deliverables", "d1"), Under("accounts", "a2")}

(* A document about an account, one about none, one about an account that  *)
(* the world has not, and another user's.                                  *)
MCDocAccount == [l1 |-> "known", l2 |-> Nothing, l3 |-> "gone", l4 |-> Nothing]
MCDocType == [l1 |-> "brief", l2 |-> "memo", l3 |-> "brief", l4 |-> "memo"]
-----------------------------------------------------------------------------
(* Two names of one account, and two of two.  An item that awaits the      *)
(* review of the second name, and one that is about to be executed.        *)
MCCasts ==
  LET Name(a, x) == [account |-> a, exact |-> x]
  IN {<<Name("a", TRUE), Name("a", FALSE)>>, <<Name("a", TRUE), Name("b", FALSE)>>}
MCFilings ==
  LET Filed(status, approval, execution) ==
        [status |-> status, approval |-> approval, execution |-> execution, external |-> 0]
      Filing(row, about, scored, sources, entries) ==
        [row |-> row, about |-> about, scored |-> scored, account |-> "a", sources |-> sources,
         trail |-> [i \in DOMAIN entries |-> [event |-> entries[i], at |-> i]]]
  IN {Filing(Filed("detected", "pending", "not_started"), 2, FALSE, {"matched"},
             <<"created_from_relationship_review">>),
      Filing(Filed("approved", "approved", "not_started"), 0, TRUE, {"market"},
             <<"create", "approval_requested", "approved">>)}
=============================================================================
