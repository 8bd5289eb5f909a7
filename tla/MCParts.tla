------------------------------ MODULE MCParts ------------------------------
(***************************************************************************)
(* The relays behind one backend, and the small machines that only answer, *)
(* checked in one run: a behaviour is one of them from its start, and the  *)
(* others never move.                                                      *)
(***************************************************************************)
EXTENDS SharedRelay, FramePolicy, Files, Agents, Store, Shell, Notices, QrCode

CONSTANTS r1, r2, p, q

\* One peer at each of two relays.
Apart == (p :> r1 @@ q :> r2)

VARIABLE part

\* The machines of these modules that MCLive checks.
noticesVars == <<rosterVars, bannerVars>>
codeVars == <<vsVars, vsClipVars, runVars>>
elsewhere == <<grantsVars, hostVars, shellVars, toastVars>>
vars == <<elsewhere, sharedVars, policyVars, tilesVars, urlsVars, roomVars, mcpVars, workerVars,
          cliVars, codeVars, imagesVars, historyVars, settingsVars, modalVars, noticesVars, qrVars, part>>

Init ==
    /\ part \in {"shared", "policy", "tiles", "urls", "room", "mcp", "worker", "cli", "run",
                 "vscode", "copies", "images", "history", "settings", "modals", "qr", "roster", "banner"}
    /\ SharedInit /\ PolicyInit /\ TilesInit /\ UrlsInit /\ RoomInit /\ McpInit /\ WorkerInit
    /\ CliInit /\ RunInit /\ (part # "run" => runCommand = "send" /\ ~runTimed) /\ ImagesInit
    /\ VsInit /\ VsCopyInit /\ (part # "vscode" => vsKeychain = NoVsRoom)
    /\ HistoryInit /\ SettingsInit /\ ModalInit /\ RosterInit /\ BannerInit /\ QrInit
    /\ GrantsInit /\ HostInit /\ ShellWorkerInit /\ ToastInit

agentsVars == <<roomVars, mcpVars, workerVars, cliVars, codeVars>>
othersVars == <<policyVars, tilesVars, urlsVars, imagesVars, historyVars, settingsVars, modalVars>>

OnlyShared == UNCHANGED <<elsewhere, agentsVars, othersVars, noticesVars, qrVars, part>>
AgentsNext ==
    /\ UNCHANGED <<elsewhere, sharedVars, othersVars, noticesVars, qrVars, part>>
    /\ \/ part = "room" /\ RoomNext /\ UNCHANGED <<mcpVars, workerVars, cliVars, codeVars>>
       \/ part = "mcp" /\ McpNext /\ UNCHANGED <<roomVars, workerVars, cliVars, codeVars>>
       \/ part = "worker" /\ WorkerNext /\ UNCHANGED <<roomVars, mcpVars, cliVars, codeVars>>
       \/ part = "cli" /\ CliNext /\ UNCHANGED <<roomVars, mcpVars, workerVars, codeVars>>
       \/ part = "vscode" /\ VsNext /\ UNCHANGED <<roomVars, mcpVars, workerVars, cliVars, vsClipVars, runVars>>
       \/ part = "copies" /\ VsCopyNext /\ UNCHANGED <<roomVars, mcpVars, workerVars, cliVars, vsVars, runVars>>
       \/ part = "run" /\ RunNext /\ UNCHANGED <<roomVars, mcpVars, workerVars, cliVars, vsVars, vsClipVars>>
OthersNext ==
    /\ UNCHANGED <<elsewhere, sharedVars, agentsVars, noticesVars, qrVars, part>>
    /\ \/ part = "policy" /\ PolicyNext
          /\ UNCHANGED <<tilesVars, urlsVars, imagesVars, historyVars, settingsVars, modalVars>>
       \/ part = "tiles" /\ TilesNext
          /\ UNCHANGED <<policyVars, urlsVars, imagesVars, historyVars, settingsVars, modalVars>>
       \/ part = "urls" /\ UrlsNext
          /\ UNCHANGED <<policyVars, tilesVars, imagesVars, historyVars, settingsVars, modalVars>>
       \/ part = "images" /\ ImagesNext
          /\ UNCHANGED <<policyVars, tilesVars, urlsVars, historyVars, settingsVars, modalVars>>
       \/ part = "history" /\ HistoryNext
          /\ UNCHANGED <<policyVars, tilesVars, urlsVars, imagesVars, settingsVars, modalVars>>
       \/ part = "settings" /\ SettingsNext
          /\ UNCHANGED <<policyVars, tilesVars, urlsVars, imagesVars, historyVars, modalVars>>
       \/ part = "modals" /\ ModalNext
          /\ UNCHANGED <<policyVars, tilesVars, urlsVars, imagesVars, historyVars, settingsVars>>
NoticesNext ==
    /\ UNCHANGED <<elsewhere, sharedVars, agentsVars, othersVars, qrVars, part>>
    /\ \/ part = "roster" /\ RosterNext /\ UNCHANGED bannerVars
       \/ part = "banner" /\ BannerNext /\ UNCHANGED rosterVars
DrawsQr ==
    /\ part = "qr" /\ QrNext
    /\ UNCHANGED <<elsewhere, sharedVars, agentsVars, othersVars, noticesVars, part>>
Next ==
    \/ part = "shared" /\ SharedNext /\ OnlyShared
    \/ AgentsNext \/ OthersNext \/ NoticesNext \/ DrawsQr

\* What the relays and the backend will do by themselves.
Work == part = "shared" /\ SharedWork

FairSpec == Init /\ [][Next]_vars /\ WF_sharedVars(Work)
=============================================================================
