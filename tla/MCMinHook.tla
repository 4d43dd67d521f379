----------------------------- MODULE MCMinHook ------------------------------
(***************************************************************************)
(* The calls made in the runs of MinHook, and those of Windows that fail.   *)
(***************************************************************************)
EXTENDS MinHook

CONSTANTS
    Unseen,     \* threads that may be neither found, opened, suspended nor moved
    Left        \* threads that may not be opened a second time

MCThreadFails ==
    ({"snapshot", "open", "suspend", "context"} \X Unseen) \cup ({"reopen"} \X Left)

\* Every function of the library.
LibraryOps ==
    ({"Initialize", "Uninitialize", "Apply"} \X {AllHooks})
      \cup ({"Create"} \X Targets)
      \cup ({"Remove", "Enable", "Disable", "QueueEnable", "QueueDisable"}
              \X (Targets \cup {AllHooks}))

\* What hooks.cpp calls: hooks are switched all together.
TogetherOps ==
    ({"Initialize", "Enable", "Disable"} \X {AllHooks}) \cup ({"Create"} \X Targets)

\* What may be called besides while threads run, also if enabling fails.
SafeOps ==
    TogetherOps \cup ({"Enable"} \X Targets) \cup ({"Disable"} \X (Targets \ PatchAbove))

\* One target is disabled on its own.
SingleOps ==
    {<<"Initialize", AllHooks>>} \cup ({"Create", "Enable", "Disable"} \X Targets)

=============================================================================
