---------------------------- MODULE Notifications ---------------------------
(***************************************************************************)
(* The list of notifications of main.cpp: ShowNotification appends to it,  *)
(* RenderNotifications draws those whose time has not passed and erases    *)
(* the others.  Durations differ, so they may expire in any order.  Only   *)
(* the rendering thread uses the list; the forms that do are composed      *)
(* with this module.                                                       *)
(***************************************************************************)
EXTENDS Naturals, Sequences, SequencesExt

CONSTANT Subjects   \* what there may be a notification about

VARIABLES
    notifications,  \* what each is about, and whether its time has passed
    shown           \* what the last RenderNotifications drew, in its order

notificationVars == <<notifications, shown>>

NotificationsInit(earlier) ==
    /\ notifications = earlier
    /\ shown = <<>>

NotificationSet == [about : Subjects, expired : BOOLEAN]

\* A list after ShowNotification.
ShowNotification(list, what) == Append(list, [about |-> what, expired |-> FALSE])

\* Mutant: the index moves on after an erase.
RenderNotificationsSkipping(list) ==
    LET loop[at \in Seq(NotificationSet) \X Nat] ==
            LET l == at[1] i == at[2]
            IN  IF i > Len(l) THEN l
                ELSE IF l[i].expired THEN loop[<<RemoveAt(l, i), i + 1>>]
                ELSE loop[<<l, i + 1>>]
    IN  loop[<<list, 1>>]

\* The loop of RenderNotifications: erasing moves the rest down under the
\* index.  What it leaves is what it drew.
RenderNotifications(list) ==
    LET loop[at \in Seq(NotificationSet) \X Nat] ==
            LET l == at[1] i == at[2]
            IN  IF i > Len(l) THEN l
                ELSE IF l[i].expired THEN loop[<<RemoveAt(l, i), i>>]
                ELSE loop[<<l, i + 1>>]
    IN  loop[<<list, 1>>]

\* Time passes for one of them.
Expire ==
    /\ \E i \in DOMAIN notifications :
         /\ ~notifications[i].expired
         /\ notifications' = [notifications EXCEPT ![i].expired = TRUE]
    /\ UNCHANGED shown

\* The forms draw each notification until its time has passed and no longer,
\* in the order they were given: erasing one neither skips nor repeats another.
\* from says which one each of those drawn was.
Rendered(before, drawn) ==
    \E from \in [DOMAIN drawn -> DOMAIN before] :
        /\ \A j, k \in DOMAIN drawn : j < k => from[j] < from[k]
        /\ Range(from) = {i \in DOMAIN before : ~before[i].expired}
        /\ \A k \in DOMAIN drawn : drawn[k] = before[from[k]]

=============================================================================
