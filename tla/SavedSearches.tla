----------------------------- MODULE SavedSearches -----------------------------
(***************************************************************************)
(* The saved searches of TenantPage.tsx.  A search is a name and filters;  *)
(* the page holds the list it read last, the one selected, the name in the *)
(* box and the filters of the moment.                                      *)
(***************************************************************************)
EXTENDS Browser

CONSTANTS Ids, Names, Filters
SavedAssumption == 0 \notin Ids /\ "" \notin Names

Name == "savedSearches"
NotSaved == [name |-> "", filters |-> CHOOSE f \in Filters : TRUE]
Searches == [name : Names, filters : Filters]

\* "list" and the server's "saved" map the ids that exist to their search.
Mounted ==
  {[list |-> [i \in {} |-> NotSaved], sel |-> 0, name |-> "", filters |-> f] :
      f \in Filters}
Stored == [saved : UNION {[S -> Searches] : S \in {{}} \cup {{j} : j \in Ids}}]
vars == <<view, ui, net, srv>>

\* The page is drawn once its list was read, or could not be.
Init ==
  /\ view = Name /\ srv \in Stored /\ net = {}
  /\ ui \in Mounted \cup {[u EXCEPT !.list = srv.saved] : u \in Mounted}

\* buildSavedSearchPayload: the name without blanks, and the filters.
Payload == [sel |-> ui.sel, name |-> ui.name, filters |-> ui.filters]
Search(key) == [name |-> key.name, filters |-> key.filters]

\* The box of the saved searches: choosing one takes its name and its filters
\* from the list as it was read.
Choose ==
  \E i \in DOMAIN ui.list :
    /\ ui' = [ui EXCEPT !.sel = i, !.name = ui.list[i].name,
                        !.filters = ui.list[i].filters]
    /\ UNCHANGED <<net, srv>>

ChooseNone ==
  /\ ui' = [ui EXCEPT !.sel = 0, !.name = ""]
  /\ UNCHANGED <<net, srv>>

TypeName ==
  \E n \in Names \cup {""} :
    /\ ui' = [ui EXCEPT !.name = n]
    /\ UNCHANGED <<net, srv>>

ChangeFilters ==
  \E f \in Filters :
    /\ ui' = [ui EXCEPT !.filters = f]
    /\ UNCHANGED <<net, srv>>

\* The three buttons are never disabled: two of their calls can be out together.
SaveNew ==
  /\ ui.name # "" /\ Room
  /\ net' = Sent("create", Payload)
  /\ UNCHANGED <<ui, srv>>

UpdateSelected ==
  /\ ui.sel # 0 /\ ui.name # "" /\ Room
  /\ net' = Sent("update", Payload)
  /\ UNCHANGED <<ui, srv>>

DeleteSelected ==
  /\ ui.sel # 0 /\ Room
  /\ net' = Sent("delete", Payload)
  /\ UNCHANGED <<ui, srv>>

Refresh(r, op, i) == Without(r) \cup {[r EXCEPT !.op = op, !.key.sel = i]}

\* The server did it: the handler awaits the list, to select what it created.
Created ==
  \E r \in Pending("create"), i \in Ids \ DOMAIN srv.saved :
    /\ srv' = [srv EXCEPT !.saved =
         [j \in DOMAIN @ \cup {i} |-> IF j = i THEN Search(r.key) ELSE @[j]]]
    /\ net' = Refresh(r, "created", i)
    /\ UNCHANGED ui

Updated ==
  \E r \in Pending("update") :
    /\ r.key.sel \in DOMAIN srv.saved
    /\ srv' = [srv EXCEPT !.saved[r.key.sel] = Search(r.key)]
    /\ net' = Refresh(r, "updated", r.key.sel)
    /\ UNCHANGED ui

Deleted ==
  \E r \in Pending("delete") :
    /\ r.key.sel \in DOMAIN srv.saved
    /\ srv' = [srv EXCEPT !.saved = [j \in DOMAIN @ \ {r.key.sel} |-> @[j]]]
    /\ net' = Refresh(r, "deleted", r.key.sel)
    /\ UNCHANGED ui

\* A call fails: the page says so, and nothing else changes.
Refused ==
  \E r \in Pending("create") \cup Pending("update") \cup Pending("delete") :
    /\ net' = Without(r)
    /\ UNCHANGED <<ui, srv>>

\* refreshSavedSearches is answered: the list is the server's, and the handler
\* selects what it created or drops the selection, whatever is selected by now.
Refreshed ==
  \E r \in Pending("created") \cup Pending("updated") \cup Pending("deleted") :
    /\ ui' = CASE r.op = "created" -> [ui EXCEPT !.list = srv.saved, !.sel = r.key.sel]
               [] r.op = "updated" -> [ui EXCEPT !.list = srv.saved]
               [] r.op = "deleted" -> [ui EXCEPT !.list = srv.saved, !.sel = 0, !.name = ""]
    /\ net' = Without(r)
    /\ UNCHANGED srv

\* The list does not arrive: the handler reports that the write failed.
RefreshFails ==
  \E r \in Pending("created") \cup Pending("updated") \cup Pending("deleted") :
    /\ net' = Without(r)
    /\ UNCHANGED <<ui, srv>>

Next ==
  /\ view = Name /\ UNCHANGED view
  /\ \/ Choose \/ ChooseNone \/ TypeName \/ ChangeFilters
     \/ SaveNew \/ UpdateSelected \/ DeleteSelected
     \/ Created \/ Updated \/ Deleted \/ Refused \/ Refreshed \/ RefreshFails

-----------------------------------------------------------------------------
TypeOK ==
  /\ ui.sel \in Ids \cup {0} /\ ui.name \in Names \cup {""} /\ ui.filters \in Filters
  /\ \A saved \in {ui.list, srv.saved} :
       DOMAIN saved \subseteq Ids /\ \A i \in DOMAIN saved : saved[i] \in Searches
=============================================================================
