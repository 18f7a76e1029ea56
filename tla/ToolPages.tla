------------------------------- MODULE ToolPages -------------------------------
(* The pages of the web client that run the server's tools                     *)
(* (src/src/web/src/pages): downloads, discs, the network, security.           *)
EXTENDS PageKit

--------------------------------------------------------------------------------
(* DownloadsPage.js. The download mode is the selection; the effect fetches    *)
(* both engines again when it changes and polls one of them every two seconds. *)

DownloadsHandlers ==
  [fetchAll  |-> Do([does |-> <<Soft(Get({"engine", "qbit"}))>>, okRaises |-> {"rows"},
                     okLowers |-> {"loading"}, failLowers |-> {"loading"}]),
   fetchEngineData |-> Do([does |-> <<Get({"engine"})>>]),
   fetchQbitData   |-> Do([does |-> <<Call, Get({"qbit"})>>]),
   handleAddMagnet |-> Do([busy |-> {"addingMagnet"}, does |-> <<Put({"qbit"})>>,
                           okLowers |-> {"showMagnetInput"}, then |-> <<"fetchQbitData">>]),
   enginePauseResume |-> Do([does |-> <<Put({"engine"})>>, then |-> <<"fetchEngineData">>]),
   engineDelete    |-> Do([does |-> <<Put({"engine"})>>, then |-> <<"fetchEngineData">>]),
   engineSetSequential |-> Do([does |-> <<Put({"engine"})>>, then |-> <<"fetchEngineData">>]),
   qbitPauseResume |-> Do([does |-> <<Put({"qbit"})>>, then |-> <<"fetchQbitData">>]),
   qbitDelete      |-> Do([does |-> <<Put({"qbit"})>>, then |-> <<"fetchQbitData">>]),
   openMagnet      |-> Flip({"showMagnetInput"}),
   closeMagnet     |-> Shut({"showMagnetInput"})]

\* The magnet form.
DownloadsForm ==
  [openMagnet |-> Off({"showMagnetInput"}), closeMagnet |-> In({"showMagnetInput"}),
   handleAddMagnet |-> InOff({"showMagnetInput"}, {"addingMagnet"})]

\* The rows of the two lists.
DownloadsRows ==
  [enginePauseResume |-> In({"rows"}), engineDelete |-> In({"rows"}),
   engineSetSequential |-> In({"rows"}), qbitPauseResume |-> In({"rows"}),
   qbitDelete |-> In({"rows"})]

DownloadsPage == PageOf(
  [reads |-> {"engine", "qbit"}, busy |-> {"loading", "addingMagnet"}, at |-> {"loading"},
   mount |-> <<"fetchAll">>, selects |-> [downloadMode |-> <<"fetchAll">>],
   timers |-> [fetchEngineData |-> Free, fetchQbitData |-> Free],
   handlers |-> DownloadsHandlers, controls |-> DownloadsForm @@ DownloadsRows])

--------------------------------------------------------------------------------
(* StrudelPage.jsx. A scan of a disc is polled by an interval that the first   *)
(* final answer clears.                                                        *)

StrudelHandlers ==
  [fetchAll  |-> Do([does |-> <<Get({"drives", "jobs", "history"})>>, okRaises |-> {"jobs"},
                     okLowers |-> {"loading"}, failLowers |-> {"loading"}]),
   pollJobs  |-> Do([does |-> <<Get({"jobs"})>>]),
   scanDisc  |-> Do([raises |-> {"scanning"}, drops |-> {"scanned"}, does |-> <<Call>>,
                     okRaises |-> {"polling"}, failLowers |-> {"scanning"}]),
   pollScan  |-> Do([does |-> <<Call>>]),
   scanDone  |-> Do([does |-> <<Call>>, okLowers |-> {"scanning", "polling"},
                     okRaises |-> {"scanned"}]),
   startRip  |-> Do([does |-> <<Put({"jobs"})>>, then |-> <<"fetchAll">>]),
   cancelJob |-> Do([does |-> <<Put({"jobs", "history"})>>, then |-> <<"fetchAll">>]),
   retryJob  |-> Do([does |-> <<Put({"jobs"})>>, then |-> <<"fetchAll">>]),
   ejectDrive |-> Do([does |-> <<Call>>])]

StrudelControls ==
  [scanDisc |-> Off({"scanning"}), ejectDrive |-> Free, startRip |-> In({"scanned"}),
   cancelJob |-> In({"jobs"}), retryJob |-> In({"jobs"})]

StrudelPage == PageOf(
  [reads |-> {"drives", "jobs", "history"}, busy |-> {"loading", "scanning"},
   at |-> {"loading"}, hides |-> {"loading"}, mount |-> <<"fetchAll">>,
   timers |-> [pollJobs |-> In({"jobs"}), pollScan |-> In({"polling"}),
               scanDone |-> In({"polling"})],
   handlers |-> StrudelHandlers, controls |-> StrudelControls])

--------------------------------------------------------------------------------
(* VpnPage.js: the server's configuration, its peers and the connection log.   *)

VpnServerHandlers ==
  [handleSetup  |-> Do([does |-> <<Put({"config"})>>, okLowers |-> {"showSetup"},
                        then |-> <<"loadAll">>]),
   handleToggle |-> Do([busy |-> {"toggling"}, does |-> <<Put({"config", "stats"})>>,
                        then |-> <<"loadAll">>]),
   handleWgUp   |-> Do([does |-> <<Put({"stats"})>>, okRaises |-> {"showWgTerminal"},
                        failRaises |-> {"showWgTerminal"}, then |-> <<"loadAll">>]),
   handleWgDown |-> Do([does |-> <<Put({"stats"})>>, okRaises |-> {"showWgTerminal"},
                        failRaises |-> {"showWgTerminal"}, then |-> <<"loadAll">>]),
   handleWgStatus |-> Do([does |-> <<Call>>, okRaises |-> {"showWgTerminal"},
                          failRaises |-> {"showWgTerminal"}]),
   openSetup    |-> Flip({"showSetup"}),
   closeSetup   |-> Shut({"showSetup"}),
   closeTerminal |-> Shut({"showWgTerminal"})]

VpnPeerHandlers ==
  [loadAll      |-> Do([busy |-> {"loading"}, does |-> <<Get({"config", "peers", "stats"})>>,
                        okRaises |-> {"configured"}]),
   handleCreatePeer |-> Do([does |-> <<Put({"peers", "stats"})>>, okLowers |-> {"showAddPeer"},
                            then |-> <<"loadAll">>]),
   handleTogglePeer |-> Do([does |-> <<Put({"peers", "stats"})>>, then |-> <<"loadAll">>]),
   handleDeletePeer |-> Do([does |-> <<Put({"peers", "stats"})>>, then |-> <<"loadAll">>]),
   openAddPeer  |-> Flip({"showAddPeer"}),
   closeAddPeer |-> Shut({"showAddPeer"})]

VpnServerControls ==
  [handleSetup |-> In({"showSetup"}), openSetup |-> Off({"showSetup"}),
   closeSetup |-> In({"showSetup"}), handleToggle |-> InOff({"configured"}, {"toggling"}),
   handleWgUp |-> In({"configured"}), handleWgDown |-> In({"configured"}),
   handleWgStatus |-> In({"configured"}), closeTerminal |-> In({"showWgTerminal"})]

VpnPeerControls ==
  [handleCreatePeer |-> In({"showAddPeer"}), openAddPeer |-> Off({"showAddPeer"}),
   closeAddPeer |-> In({"showAddPeer"}), handleTogglePeer |-> In({"configured"}),
   handleDeletePeer |-> In({"configured"})]

VpnPage == PageOf(
  [reads |-> {"config", "peers", "stats"}, busy |-> {"loading", "toggling"},
   mount |-> <<"loadAll">>, handlers |-> VpnServerHandlers @@ VpnPeerHandlers,
   controls |-> VpnServerControls @@ VpnPeerControls])

--------------------------------------------------------------------------------
(* SecurityPage.js: four panels, each a component with its own state.          *)

\* The audit log reloads whenever its page number or filter changes.
AuditHandlers == [load |-> Do([busy |-> {"loading"}, does |-> <<Get({"logs"})>>])]
AuditControls == [load |-> Free]
AuditPanel == PageOf(
  [reads |-> {"logs"}, busy |-> {"loading"}, mount |-> <<"load">>,
   selects |-> [pageOrFilter |-> <<"load">>],
   handlers |-> AuditHandlers, controls |-> AuditControls])

\* Mutant: the rules are not loaded again after one was deleted.
IpRulesHandlers_NotReloaded ==
  [load |-> Do([busy |-> {"loading"}, does |-> <<Get({"rules"})>>, okRaises |-> {"rows"}]),
   handleAdd |-> Do([does |-> <<Put({"rules"})>>, okLowers |-> {"showAdd"}, then |-> <<"load">>]),
   handleDelete |-> Do([does |-> <<Put({"rules"})>>]),
   openAdd |-> Flip({"showAdd"}), closeAdd |-> Shut({"showAdd"})]

IpRulesHandlers ==
  [load |-> Do([busy |-> {"loading"}, does |-> <<Get({"rules"})>>, okRaises |-> {"rows"}]),
   handleAdd |-> Do([does |-> <<Put({"rules"})>>, okLowers |-> {"showAdd"}, then |-> <<"load">>]),
   handleDelete |-> Do([does |-> <<Put({"rules"})>>, then |-> <<"load">>]),
   openAdd |-> Flip({"showAdd"}), closeAdd |-> Shut({"showAdd"})]
IpRulesControls ==
  [openAdd |-> Off({"showAdd"}), closeAdd |-> In({"showAdd"}), handleAdd |-> In({"showAdd"}),
   handleDelete |-> In({"rows"})]
IpRulesPanel == PageOf(
  [reads |-> {"rules"}, busy |-> {"loading"}, mount |-> <<"load">>,
   handlers |-> IpRulesHandlers, controls |-> IpRulesControls])

ApiKeysHandlers ==
  [load |-> Do([busy |-> {"loading"}, does |-> <<Get({"keys"})>>, okRaises |-> {"rows"}]),
   handleCreate |-> Do([does |-> <<Put({"keys"})>>, okLowers |-> {"showAdd"},
                        okRaises |-> {"revealedKey"}, then |-> <<"load">>]),
   handleRevoke |-> Do([does |-> <<Put({"keys"})>>, then |-> <<"load">>]),
   dismiss |-> Shut({"revealedKey"}),
   openAdd |-> Flip({"showAdd"}), closeAdd |-> Shut({"showAdd"})]
ApiKeysControls ==
  [openAdd |-> Off({"showAdd"}), closeAdd |-> In({"showAdd"}), handleCreate |-> In({"showAdd"}),
   handleRevoke |-> In({"rows"}), dismiss |-> In({"revealedKey"})]
ApiKeysPanel == PageOf(
  [reads |-> {"keys"}, busy |-> {"loading"}, mount |-> <<"load">>,
   handlers |-> ApiKeysHandlers, controls |-> ApiKeysControls])

SessionsHandlers ==
  [load |-> Do([busy |-> {"loading"}, does |-> <<Get({"sessions"})>>, okRaises |-> {"rows"}]),
   handleRevoke |-> Do([does |-> <<Put({"sessions"})>>, then |-> <<"load">>])]
SessionsControls == [load |-> Free, handleRevoke |-> In({"rows"})]
SessionsPanel == PageOf(
  [reads |-> {"sessions"}, busy |-> {"loading"}, mount |-> <<"load">>,
   handlers |-> SessionsHandlers, controls |-> SessionsControls])

================================================================================
