------------------------------- MODULE MCLive -------------------------------
(***************************************************************************)
(* The client's small machines that do something by themselves, checked in *)
(* one run: a behaviour is one of them from its start, and the others      *)
(* never move.                                                             *)
(***************************************************************************)
EXTENDS Files, Agents, Presence, Shell, SseChannel

VARIABLE part

\* The machines of these modules that MCParts checks.
elsewhere == <<tilesVars, urlsVars, roomVars, mcpVars, workerVars, cliVars, modalVars,
               vsVars, vsClipVars, runVars, imagesVars>>
liveVars == <<grantsVars, hostVars, editorVars, pointerVars, shellVars, toastVars, sseVars>>
vars == <<elsewhere, liveVars, part>>

Init ==
    /\ part \in {"grants", "host", "editor", "pointer", "shell", "toasts", "sse"}
    /\ TilesInit /\ UrlsInit /\ RoomInit /\ McpInit /\ WorkerInit /\ CliInit /\ ModalInit
    /\ VsInit /\ vsKeychain = NoVsRoom /\ VsCopyInit
    /\ RunInit /\ runCommand = "send" /\ ~runTimed /\ ImagesInit
    /\ GrantsInit /\ HostInit /\ EditorInit /\ PointerInit /\ ShellWorkerInit /\ ToastInit /\ SseInit

OnlyGrants == UNCHANGED <<hostVars, editorVars, pointerVars, shellVars, toastVars, sseVars>>
OnlyHost == UNCHANGED <<grantsVars, editorVars, pointerVars, shellVars, toastVars, sseVars>>
OnlyEditor == UNCHANGED <<grantsVars, hostVars, pointerVars, shellVars, toastVars, sseVars>>
OnlyPointer == UNCHANGED <<grantsVars, hostVars, editorVars, shellVars, toastVars, sseVars>>
OnlyShell == UNCHANGED <<grantsVars, hostVars, editorVars, pointerVars, toastVars, sseVars>>
OnlyToasts == UNCHANGED <<grantsVars, hostVars, editorVars, pointerVars, shellVars, sseVars>>
OnlySse == UNCHANGED <<grantsVars, hostVars, editorVars, pointerVars, shellVars, toastVars>>

Next ==
    /\ UNCHANGED <<elsewhere, part>>
    /\ \/ part = "grants" /\ GrantsNext /\ OnlyGrants
       \/ part = "host" /\ HostNext /\ OnlyHost
       \/ part = "editor" /\ EditorNext /\ OnlyEditor
       \/ part = "pointer" /\ PointerNext /\ OnlyPointer
       \/ part = "shell" /\ ShellWorkerNext /\ OnlyShell
       \/ part = "toasts" /\ ToastNext /\ OnlyToasts
       \/ part = "sse" /\ SseNext /\ OnlySse

\* What timers and answers will do by themselves, in each.
Work ==
       \/ part = "grants" /\ GrantsWork /\ OnlyGrants
       \/ part = "host" /\ HostWork /\ OnlyHost
       \/ part = "editor" /\ EditorWork /\ OnlyEditor
       \/ part = "pointer" /\ PointerWork /\ OnlyPointer
       \/ part = "shell" /\ ShellWorkerWork /\ OnlyShell
       \/ part = "toasts" /\ ToastWork /\ OnlyToasts
       \/ part = "sse" /\ SseWork /\ OnlySse

FairSpec == Init /\ [][Next]_vars /\ WF_liveVars(Work)
=============================================================================
