------------------------------- MODULE PostForm -------------------------------
(***************************************************************************)
(* The form of a content item in the admin area: the buttons of            *)
(* editor.Form, which change the form's action before they submit it, and  *)
(* the script of manager.Manage, which splits the time of publication into *)
(* fields (util.js) and puts it together again.  Times are in hours; the   *)
(* minutes go through unchanged.                                           *)
(***************************************************************************)
EXTENDS Integers, Sequences

CONSTANTS
    Times,     \* times of publication, in hours since a midnight
    MaxClicks  \* bound on the buttons clicked

ASSUME PostFormAssumption == Times \subseteq Nat /\ MaxClicks \in Nat

VARIABLES
    published,  \* the time the item has
    pendingTab, \* the page was opened with status=pending
    dateFields, \* what the fields of the form hold: [day, hh, pd]
    formAction, \* what follows /admin/edit in the form's action
    clicks,     \* the buttons clicked
    declined,   \* a confirmation was answered with no
    posted      \* the request sent: [path, status, reject, time], or NotSent

formVars == <<published, pendingTab, dateFields, formAction, clicks, declined, posted>>

NotSent == [path |-> "none", pending |-> FALSE, reject |-> FALSE, time |-> 0]

\* Mutant: the hours of the afternoon are counted from midnight.
HoursOfDay(unix) ==
    [hh |-> unix % 24, pd |-> IF unix % 24 >= 12 THEN "PM" ELSE "AM"]

getPartialTime(unix) ==
    LET hours == unix % 24
    IN [hh |-> IF hours > 12 THEN hours - 12 ELSE hours,
        pd |-> IF hours >= 12 THEN "PM" ELSE "AM"]
getPartialDate(unix) == unix \div 24

setDefaultTimeAndDate(unix) ==
    [day |-> getPartialDate(unix), hh |-> getPartialTime(unix).hh, pd |-> getPartialTime(unix).pd]

\* Mutant: the afternoon is forgotten.
MorningAlways(dt) == 24 * dt.day + dt.hh

\* An hour of 24 is the first of the next day.
updateTimestamp(dt) == 24 * dt.day + dt.hh + (IF dt.pd = "PM" THEN 12 ELSE 0)

PostFormInit ==
    /\ published \in Times
    /\ pendingTab \in BOOLEAN
    /\ dateFields = setDefaultTimeAndDate(published)
    /\ formAction = <<>>
    /\ clicks = <<>>
    /\ declined = FALSE
    /\ posted = NotSent

\* The path an action stands for is what comes before its first query; a path with
\* two parts is none that server.go handles.
Path(action) ==
    LET Asks(i) == action[i] \in {"?status=pending", "/delete?reject=true"}
        Slashes == {i \in DOMAIN action : action[i] # "?status=pending"
                                          /\ \A j \in 1 .. i - 1 : ~Asks(j)}
    IN IF Slashes = {} THEN "edit"
       ELSE IF \E i, j \in Slashes : i # j THEN "not found"
       ELSE LET last == CHOOSE i \in Slashes : TRUE
            IN IF action[last] = "/approve" THEN "approve" ELSE "delete"

\* The value of a query's parameter runs to the end of the action, another
\* question mark included.
Query(action) ==
    LET Asks == {i \in DOMAIN action : action[i] \in {"?status=pending", "/delete?reject=true"}}
    IN IF Asks = {Len(action)} THEN action[Len(action)] ELSE "none"

\* The submit handler sets the time and submits once more, which then goes through.
SendForm(action) ==
    posted' = [path |-> Path(action),
               pending |-> Query(action) = "?status=pending",
               reject |-> Query(action) = "/delete?reject=true",
               time |-> updateTimestamp(dateFields)]

Click(button, suffix) ==
    /\ posted = NotSent
    /\ Len(clicks) < MaxClicks
    /\ clicks' = Append(clicks, button)
    /\ formAction' = formAction \o suffix
    /\ UNCHANGED <<published, pendingTab, dateFields>>

Save ==
    /\ Click("save", IF pendingTab THEN <<"?status=pending">> ELSE <<>>)
    /\ SendForm(formAction')
    /\ UNCHANGED declined

\* Mutant: the action of the button beside it.
ApproveAsReject ==
    /\ pendingTab
    /\ Click("approve", <<"/delete?reject=true">>)
    /\ SendForm(formAction')
    /\ UNCHANGED declined

Approve ==
    /\ pendingTab
    /\ Click("approve", <<"/approve">>)
    /\ SendForm(formAction')
    /\ UNCHANGED declined

\* The action is changed before the user is asked, and stays so.
Confirmed(yes) ==
    IF yes THEN SendForm(formAction') /\ UNCHANGED declined
    ELSE declined' = TRUE /\ UNCHANGED posted
Delete(yes) ==
    /\ Click("delete", <<"/delete">>)
    /\ Confirmed(yes)
Reject(yes) ==
    /\ pendingTab
    /\ Click("reject", <<"/delete?reject=true">>)
    /\ Confirmed(yes)

PostFormNext ==
    \/ Save
    \/ Approve
    \/ \E yes \in BOOLEAN : Delete(yes) \/ Reject(yes)

PostFormSpec == PostFormInit /\ [][PostFormNext]_formVars

------------------------------------------------------------------------------
(* Properties.                                                             *)

PostFormTypeOK ==
    /\ published \in Nat
    /\ dateFields \in [day : Nat, hh : 0 .. 12, pd : {"AM", "PM"}]
    /\ formAction \in Seq({"/approve", "/delete", "/delete?reject=true", "?status=pending"})
    /\ posted \in [path : {"none", "edit", "approve", "delete", "not found"},
                   pending : BOOLEAN, reject : BOOLEAN, time : Nat]

\* An item is published when it was before, however often it is saved, through the
\* fields and back, if that is not in the hour after noon, which the fields give
\* as 12 PM and updateTimestamp takes for 24 (getPartialTime, updateTimestamp).
SavingKeepsTime ==
    posted.path # "none" /\ published % 24 # 12 => posted.time = published

\* As long as no confirmation was declined, what is done to the item is what the
\* button clicked last stands for (the handlers of editor.Form).
Expected == [save |-> "edit", approve |-> "approve", delete |-> "delete", reject |-> "delete"]
SentAsAsked ==
    posted.path # "none" /\ ~declined =>
        /\ posted.path = Expected[clicks[Len(clicks)]]
        /\ posted.reject <=> clicks[Len(clicks)] = "reject"
        /\ posted.pending <=> pendingTab /\ clicks[Len(clicks)] = "save"

\* Both, with their conditions: what is posted is what the button asks for as long
\* as no confirmation was declined, and with the item's own time outside the hour
\* after noon.  After a declined confirmation nothing is claimed: Delete and Reject
\* change the form's action before they ask, no answer changes it back, and so
\* Approve no longer publishes, against the form's label (editor.go, line 139).
PostedAsAsked == SavingKeepsTime /\ SentAsAsked
=============================================================================
