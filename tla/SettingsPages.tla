----------------------------- MODULE SettingsPages -----------------------------
(* The catalog of the settings sections of the web client, components/settings *)
(* under src/src/web/src, and of pages/SettingsPage.js, which keeps the state  *)
(* of three of them. A flag that holds the id of a row (testing, repairing)    *)
(* turns the button of no other row off, and is let go when another takes it.  *)
EXTENDS PageKit

(* PlaybackSettings.jsx                                                        *)

PlaybackHandlers ==
  [fetchSettings |-> Do([does |-> <<Get({"settings"})>>]),
   checkChromaprint |-> Do([does |-> <<Get({"chromaprint"})>>, okRaises |-> {"installed"},
                            blank |-> {"chromaprint"}]),
   handleSave |-> Do([busy |-> {"saving"}, does |-> <<Save({"settings"})>>]),
   handleAnalyzeAllSeries |-> Do([busy |-> {"analyzing"}, does |-> <<Call>>])]

\* The sliders and switches of the skip and autoplay tabs stand for all.
PlaybackControls == [edit |-> Free, handleSave |-> Off({"saving"})]
DetectionTab == [handleAnalyzeAllSeries |-> InOff({"installed"}, {"analyzing"})]

PlaybackSettings == PageOf(
  [reads |-> {"settings", "chromaprint"}, busy |-> {"saving", "analyzing"},
   mount |-> <<"fetchSettings", "checkChromaprint">>,
   handlers |-> PlaybackHandlers @@ [edit |-> Do([edits |-> {"settings"}])],
   controls |-> PlaybackControls @@ DetectionTab])

HistoryHandlers ==
  [fetchWatchHistory |-> Do([busy |-> {"loading"}, does |-> <<Get({"history"})>>, okRaises |-> {"rows"}]),
   handleRemoveItem |-> Do([does |-> <<Put({"history"})>>, local |-> {"history"}]),
   handleClearAll   |-> Do([busy |-> {"clearing"}, does |-> <<Put({"history"})>>,
                            local |-> {"history"}, okLowers |-> {"confirming"}]),
   openConfirm |-> Flip({"confirming"}), closeConfirm |-> Shut({"confirming"})]

\* Neither button is offered until there are rows.
HistoryControls ==
  [handleRemoveItem |-> InOff({"rows"}, {"loading"}),
   openConfirm |-> InOff({"rows"}, {"confirming"}), closeConfirm |-> In({"confirming"}),
   handleClearAll |-> InOff({"confirming"}, {"clearing"})]

HistoryTab == PageOf(
  [reads |-> {"history"}, busy |-> {"loading", "clearing"}, mount |-> <<"fetchWatchHistory">>,
   handlers |-> HistoryHandlers, controls |-> HistoryControls])

--------------------------------------------------------------------------------
(* GeneralSettings.jsx                                                         *)

GeneralHandlers ==
  [fetchPreferences  |-> Do([does |-> <<Get({"tabs"})>>, okLowers |-> {"loadingPrefs"},
                             failLowers |-> {"loadingPrefs"}]),
   toggleTab         |-> Do([edits |-> {"tabs"}]),
   showAllTabs       |-> Do([edits |-> {"tabs"}]),
   saveTabVisibility |-> Do([busy |-> {"savingTabs"}, does |-> <<Save({"tabs"})>>])]

\* The buttons that show and hide every tab stand outside the loader.
GeneralControls ==
  [toggleTab |-> Off({"loadingPrefs"}), showAllTabs |-> Free,
   saveTabVisibility |-> Off({"savingTabs"})]

GeneralSettings == PageOf(
  [reads |-> {"tabs"}, busy |-> {"loadingPrefs", "savingTabs"}, at |-> {"loadingPrefs"},
   mount |-> <<"fetchPreferences">>, handlers |-> GeneralHandlers, controls |-> GeneralControls])

--------------------------------------------------------------------------------
(* SettingsPage.js: its settings, with the paths tab of GeneralSettings; its   *)
(* users, with UsersSettings.jsx; its libraries, with LibrarySettings.jsx.     *)

SettingsHandlers ==
  [fetchData          |-> Do([does |-> <<Soft(Get({"settings"}))>>]),
   handleSaveSettings |-> Do([busy |-> {"saving"}, does |-> <<Save({"settings"})>>])]

\* A path is typed, or picked in the file browser.
PathsControls == [editPath |-> Free, handleSaveSettings |-> Off({"saving"})]

PathsTab == PageOf(
  [reads |-> {"settings"}, busy |-> {"saving"}, mount |-> <<"fetchData">>,
   handlers |-> SettingsHandlers @@ [editPath |-> Do([edits |-> {"settings"}])],
   controls |-> PathsControls])

\* A switch of a user card sends the permissions of the user as shown, with its
\* own changed.
UsersHandlers ==
  [fetchUsers |-> Do([busy |-> {"loadingUsers"}, does |-> <<Get({"users"})>>, blank |-> {"users"}]),
   handleAddUser    |-> Do([busy |-> {"savingUser"}, does |-> <<Put({"users"})>>,
                            local |-> {"users"}, okLowers |-> {"showAddUser"}]),
   handleUpdateUser |-> Do([busy |-> {"savingUser"}, does |-> <<Rewrite({"users"})>>,
                            local |-> {"users"}, stale |-> TRUE]),
   handleDeleteUser |-> Do([does |-> <<Put({"users"})>>, local |-> {"users"}]),
   openAddUser |-> Flip({"showAddUser"}), closeAddUser |-> Shut({"showAddUser"}),
   openEdit |-> Flip({"editingUser"}), closeEdit |-> Shut({"editingUser"})]

UsersControls ==
  [openAddUser |-> Off({"showAddUser"}), closeAddUser |-> In({"showAddUser"}),
   handleAddUser |-> InOff({"showAddUser"}, {"savingUser"})]

UserCard ==
  [openEdit |-> Off({"loadingUsers", "editingUser"}),
   closeEdit |-> InOff({"editingUser"}, {"loadingUsers"}),
   handleUpdateUser |-> InOff({"editingUser"}, {"loadingUsers"}),
   handleDeleteUser |-> Off({"loadingUsers"})]

UsersTab == PageOf(
  [reads |-> {"users"}, busy |-> {"loadingUsers", "savingUser"}, mount |-> <<"fetchUsers">>,
   handlers |-> UsersHandlers, controls |-> UsersControls @@ UserCard])

LibrariesHandlers ==
  [fetchLibraries |-> Do([busy |-> {"loadingLibraries"}, does |-> <<Get({"libraries"})>>]),
   handleAddLibrary    |-> Do([does |-> <<Put({"libraries"})>>, okLowers |-> {"showAddLibrary"},
                               then |-> <<"fetchLibraries">>]),
   handleDeleteLibrary |-> Do([does |-> <<Put({"libraries"})>>, then |-> <<"fetchLibraries">>]),
   handleScanLibrary   |-> Do([busy |-> {"scanning"}, does |-> <<Put({"libraries"})>>,
                               then |-> <<"fetchLibraries">>])]

\* confirmFolderSelection opens the form with the folder filled in.
BrowserHandlers ==
  [openFileBrowser |-> Flip({"showFileBrowser"}),
   confirmFolderSelection |-> Do([drops |-> {"showFileBrowser"}, raises |-> {"showAddLibrary"}])]

ImportHandlers ==
  [handleManualImportScan |-> Do([does |-> <<Get({"files"})>>, okRaises |-> {"found"}]),
   handleImportFiles |-> Do([does |-> <<Put({"libraries"})>>, okLowers |-> {"found"},
                             then |-> <<"fetchLibraries">>])]

LibrariesControls ==
  [openAdd |-> Off({"showAddLibrary"}), closeAdd |-> In({"showAddLibrary"}),
   handleAddLibrary |-> In({"showAddLibrary"}), openFileBrowser |-> In({"showAddLibrary"}),
   confirmFolderSelection |-> In({"showFileBrowser"}),
   handleDeleteLibrary |-> Off({"loadingLibraries"}),
   handleScanLibrary |-> Off({"loadingLibraries"})]

ImportControls == [handleManualImportScan |-> Free, handleImportFiles |-> In({"found"})]

LibrariesTab == PageOf(
  [reads |-> {"libraries", "files"}, busy |-> {"loadingLibraries", "scanning"},
   mount |-> <<"fetchLibraries">>,
   handlers |-> LibrariesHandlers @@ BrowserHandlers @@ ImportHandlers @@
                [openAdd |-> Flip({"showAddLibrary"}), closeAdd |-> Shut({"showAddLibrary"})],
   controls |-> LibrariesControls @@ ImportControls])

--------------------------------------------------------------------------------
(* QualityProfilesSettings.jsx: every change sends a whole profile.            *)

ProfilesHandlers ==
  [fetchProfiles |-> Do([does |-> <<Get({"profiles"})>>, okLowers |-> {"loading"},
                         failLowers |-> {"loading"}, blank |-> {"profiles"}]),
   handleCreateProfile |-> Do([busy |-> {"saving"}, does |-> <<Put({"profiles"})>>,
                               okLowers |-> {"showCreateModal"}, then |-> <<"fetchProfiles">>]),
   handleUpdateProfile |-> Do([busy |-> {"saving"}, does |-> <<Rewrite({"profiles"})>>,
                               okLowers |-> {"editingProfile"}, then |-> <<"fetchProfiles">>]),
   handleDeleteProfile |-> Do([does |-> <<Put({"profiles"})>>, then |-> <<"fetchProfiles">>]),
   handleSetDefault    |-> Do([does |-> <<Rewrite({"profiles"})>>, then |-> <<"fetchProfiles">>]),
   importDefaultProfiles |-> Do([busy |-> {"saving"},
                                 does |-> <<Put({"profiles"}), Put({"profiles"})>>,
                                 then |-> <<"fetchProfiles">>])]

ProfilesControls ==
  [importDefaultProfiles |-> Off({"saving"}), openCreate |-> Off({"showCreateModal"}),
   handleDeleteProfile |-> Free, handleSetDefault |-> Free]
ProfileEditor ==
  [editProfile |-> Off({"editingProfile"}),
   handleUpdateProfile |-> InOff({"editingProfile"}, {"saving"})]
ProfileModal ==
  [closeCreate |-> In({"showCreateModal"}),
   handleCreateProfile |-> InOff({"showCreateModal"}, {"saving"})]

QualityProfilesSettings == PageOf(
  [reads |-> {"profiles"}, busy |-> {"loading", "saving"}, at |-> {"loading"}, hides |-> {"loading"},
   mount |-> <<"fetchProfiles">>,
   handlers |-> ProfilesHandlers @@
                [openCreate |-> Flip({"showCreateModal"}), closeCreate |-> Shut({"showCreateModal"}),
                 editProfile |-> Flip({"editingProfile"})],
   controls |-> ProfilesControls @@ ProfileEditor @@ ProfileModal])

--------------------------------------------------------------------------------
(* PluginsSettings.jsx                                                         *)

\* install, uninstall, activate and deactivate of GadgetContext reload what is
\* installed; the reload has a catch of its own.
PluginsGadgets ==
  [handleInstallGadget |-> Do([busy |-> {"installingGadget"},
                               does |-> <<Put({"installed"}), Soft(Get({"installed"}))>>]),
   handleToggleGadget  |-> Do([does |-> <<Put({"installed"}), Soft(Get({"installed"}))>>])]

PluginsLoads ==
  [fetchCatalogue |-> Do([busy |-> {"loadingCatalogue"}, does |-> <<Get({"catalogue"})>>,
                          okRaises |-> {"rows"}]),
   fetchCatalogueCategories |-> Do([does |-> <<Get({"categories"})>>]),
   fetchPlugins |-> Do([busy |-> {"loadingPlugins"}, does |-> <<Get({"plugins"})>>])]

\* handleFileImport differs in the body it sends.
PluginsImports ==
  [handleDiscoverPlugins |-> Do([busy |-> {"loadingPlugins"}, does |-> <<Put({"plugins"})>>,
                                 then |-> <<"fetchPlugins">>]),
   handleUrlImport |-> Do([busy |-> {"importing"}, does |-> <<Put({"plugins"})>>,
                           okLowers |-> {"showImportOptions"}, then |-> <<"fetchPlugins">>]),
   openImport |-> Flip({"showImportOptions"}), closeImport |-> Shut({"showImportOptions"})]

PluginsImportControls ==
  [openImport |-> Off({"showImportOptions"}), closeImport |-> In({"showImportOptions"}),
   handleDiscoverPlugins |-> Off({"loadingPlugins"}),
   handleUrlImport |-> InOff({"showImportOptions"}, {"importing"})]
PluginsGadgetControls == [handleInstallGadget |-> In({"rows"})]
PluginsInstalledControls == [handleToggleGadget |-> Free]

\* A category, or a letter more in the search box, fetches the catalogue again.
PluginsSettings == PageOf(
  [reads |-> {"catalogue", "categories", "plugins", "installed"},
   busy |-> {"loadingPlugins", "loadingCatalogue", "importing", "installingGadget"},
   mount |-> <<"fetchPlugins", "fetchCatalogue", "fetchCatalogueCategories">>,
   selects |-> [search |-> <<"fetchCatalogue">>],
   handlers |-> PluginsGadgets @@ PluginsLoads @@ PluginsImports,
   controls |-> PluginsImportControls @@ PluginsGadgetControls @@ PluginsInstalledControls])

--------------------------------------------------------------------------------
(* CrumbsSettings.jsx: the selection is the service whose editor is open.      *)

CrumbsHandlers ==
  [fetchData  |-> Do([busy |-> {"loading"}, does |-> <<Get({"services", "configured"})>>]),
   openEditor |-> Do([raises |-> {"selectedService"}, does |-> <<Get({"fields"})>>,
                      blank |-> {"fields"}]),
   editFields |-> Do([edits |-> {"fields"}]),
   handleSave |-> Do([busy |-> {"saving"}, does |-> <<Ask({"configured"}, {"fields"}, {})>>,
                      then |-> <<"fetchData">>]),
   handleTest |-> Do([busy |-> {"testing"}, does |-> <<Put({"configured"})>>,
                      then |-> <<"fetchData">>]),
   \* What the editor showed goes with it.
   handleDelete |-> Do([does |-> <<Put({"configured", "fields"})>>, local |-> {"fields"},
                        okLowers |-> {"selectedService"}, then |-> <<"fetchData">>])]

CrumbsControls ==
  [openEditor |-> Free, editFields |-> In({"selectedService"}),
   handleSave |-> InOff({"selectedService"}, {"saving"}),
   handleTest |-> In({"selectedService"}), handleDelete |-> In({"selectedService"})]

CrumbsSettings == PageOf(
  [reads |-> {"services", "configured", "fields"}, busy |-> {"loading", "saving", "testing"},
   at |-> {"loading"}, hides |-> {"loading"}, mount |-> <<"fetchData">>,
   selects |-> [service |-> <<"openEditor">>],
   handlers |-> CrumbsHandlers, controls |-> CrumbsControls])

--------------------------------------------------------------------------------
(* ZestSettings.jsx: the selection is the filter of the logs.                  *)

\* handleRefresh awaits three loads that each catch their own failure.
ZestHandlers ==
  [fetchLogs     |-> Do([does |-> <<Get({"logs"})>>]),
   handleRefresh |-> Do([busy |-> {"loading"}, does |-> <<Soft(Get({"logs", "stats"}))>>]),
   handleClearLogs |-> Do([does |-> <<Put({"logs", "stats"})>>, then |-> <<"handleRefresh">>]),
   startAuto |-> Flip({"autoRefresh"}), stopAuto |-> Shut({"autoRefresh"}),
   \* The interval calls the handleRefresh of the render that started it.
   autoRefreshed |-> Do([busy |-> {"loading"},
                         does |-> <<Elsewhere(Soft(Get({"logs", "stats"})))>>])]

ZestControls ==
  [handleRefresh |-> Off({"loading"}), handleClearLogs |-> Free,
   startAuto |-> Off({"autoRefresh"}), stopAuto |-> In({"autoRefresh"})]

ZestSettings == PageOf(
  [reads |-> {"logs", "stats"}, busy |-> {"loading"}, mount |-> <<"handleRefresh", "fetchLogs">>,
   timers |-> [autoRefreshed |-> In({"autoRefresh"})], selects |-> [filters |-> <<"fetchLogs">>],
   handlers |-> ZestHandlers, controls |-> ZestControls])

--------------------------------------------------------------------------------
(* MaintenanceSettings.jsx: the selection is the log file and its lines.       *)

\* actionLoading is a map: each action has a flag of its own, so that different
\* actions run together. Emptying the cache runs as these do.
MaintenanceAction(action, changed) ==
    Do([busy |-> {action}, does |-> <<Put(changed)>>, then |-> <<"fetchAllStats">>])

\* Each of the six loads of fetchAllStats falls back to nothing.
MaintenanceHandlers ==
  [fetchAllStats |-> Do([busy |-> {"loading"}, does |-> <<Soft(Get({"stats", "backups"}))>>,
                         blank |-> {"stats", "backups"}]),
   fetchLogs     |-> Do([does |-> <<Get({"logs"})>>]),
   vacuum |-> MaintenanceAction("vacuum", {"stats"}),
   backup |-> MaintenanceAction("backup", {"backups"}),
   reset  |-> MaintenanceAction("reset", {"stats", "backups"}),
   clearLogs |-> MaintenanceAction("clearLogs", {"stats"}),
   openLogs |-> Do([raises |-> {"logsTab"}]), closeLogs |-> Shut({"logsTab"})]

SystemTab   == [fetchAllStats |-> Off({"loading", "logsTab"})]
DatabaseTab == [action \in {"vacuum", "backup", "reset"} |-> Off({action, "logsTab"})]
LogsTab     == [fetchLogs |-> In({"logsTab"}), clearLogs |-> InOff({"logsTab"}, {"clearLogs"})]

MaintenanceSettings == PageOf(
  [reads |-> {"stats", "backups", "logs"},
   busy |-> {"loading", "vacuum", "backup", "reset", "clearLogs"},
   mount |-> <<"fetchAllStats">>,
   timers |-> [fetchAllStats |-> Free, fetchLogs |-> In({"logsTab"})],
   selects |-> [file |-> <<"fetchLogs">>],
   handlers |-> MaintenanceHandlers,
   controls |-> SystemTab @@ DatabaseTab @@ LogsTab
                @@ [openLogs |-> Off({"logsTab"}), closeLogs |-> In({"logsTab"})]])

--------------------------------------------------------------------------------
(* UpdateSettings.jsx                                                          *)

\* The four loads of the mount each have a catch of their own. pending is what
\* the server says of a restart.
UpdateLoads(pending) ==
  [fetchAll |-> Do([does |-> <<Soft(Get({"current", "settings", "history"}))>>,
                    okLowers |-> {"loading"}, okRaises |-> pending]),
   fetchCurrent |-> Do([does |-> <<Get({"current"})>>]),
   fetchHistory |-> Do([does |-> <<Get({"history"})>>])]

\* After a restart the page polls every three seconds until the server answers,
\* and reloads itself.
UpdateTasks ==
  [handleCheckUpdates |-> Do([busy |-> {"checking"}, drops |-> {"updateResult"},
                              does |-> <<Put({"current"})>>, okRaises |-> {"updateResult"},
                              then |-> <<"fetchCurrent">>]),
   handleApplyPatch |-> Do([does |-> <<Put({"history"})>>, okLowers |-> {"updateResult"},
                            okRaises |-> {"restartPending"}, then |-> <<"fetchHistory">>]),
   handleRestart |-> Do([raises |-> {"restarting"}, does |-> <<Call>>, okRaises |-> {"polling"},
                         failLowers |-> {"restarting"}]),
   poll |-> Do([does |-> <<Call>>, okLowers |-> {"restarting", "restartPending", "polling"}]),
   handleDismiss |-> Do([does |-> <<Call>>, okLowers |-> {"updateResult"}]),
   editSettings |-> Do([edits |-> {"settings"}]),
   handleSaveSettings |-> Do([does |-> <<Save({"settings"})>>, okLowers |-> {"showSettings"}]),
   openSettings |-> Flip({"showSettings"}), closeSettings |-> Shut({"showSettings"})]

UpdateResultControls ==
  [handleCheckUpdates |-> Off({"checking"}),
   handleRestart |-> InOff({"restartPending"}, {"restarting"}),
   handleApplyPatch |-> In({"updateResult"}), handleDismiss |-> In({"updateResult"})]
UpdateSettingsControls ==
  [openSettings |-> Off({"showSettings"}), closeSettings |-> In({"showSettings"}),
   editSettings |-> In({"showSettings"}), handleSaveSettings |-> In({"showSettings"})]

UpdateSettingsFor(pending) == PageOf(
  [reads |-> {"current", "settings", "history"}, busy |-> {"loading", "checking", "restarting"},
   at |-> {"loading"}, hides |-> {"loading"}, mount |-> <<"fetchAll">>,
   timers |-> [poll |-> In({"polling"})],
   handlers |-> UpdateLoads(pending) @@ UpdateTasks,
   controls |-> UpdateResultControls @@ UpdateSettingsControls])
UpdateSettings == UpdateSettingsFor({})
UpdateSettingsPending == UpdateSettingsFor({"restartPending"})

--------------------------------------------------------------------------------
(* DownloadSettings.jsx: the mode and the built-in engine, and qBittorrent.    *)

EngineHandlers ==
  [fetchEngineStatus   |-> Do([does |-> <<Get({"status"})>>, blank |-> {"status"}]),
   fetchEngineSettings |-> Do([does |-> <<Get({"engine"})>>]),
   loadPreferences     |-> Do([does |-> <<Get({"mode"})>>]),
   handleSetDownloadMode |-> Do([early |-> {"mode"}, does |-> <<Save({"mode"})>>]),
   testEngine |-> Do([busy |-> {"testingEngine"}, does |-> <<Soft(Get({"status"}))>>,
                      blank |-> {"status"}]),
   editEngine |-> Do([edits |-> {"engine"}]),
   saveEngineSettings |-> Do([busy |-> {"savingEngineSettings"}, does |-> <<Save({"engine"})>>])]

EngineControls == [handleSetDownloadMode |-> Free, testEngine |-> Off({"testingEngine"})]
\* Mutant: the button stays on while the limits are saved.
EngineLimits_StaysOn == [editEngine |-> Free, saveEngineSettings |-> Free]

EngineLimits == [editEngine |-> Free, saveEngineSettings |-> Off({"savingEngineSettings"})]

EngineSettings == PageOf(
  [reads |-> {"status", "engine", "mode"}, busy |-> {"testingEngine", "savingEngineSettings"},
   mount |-> <<"fetchEngineStatus", "fetchEngineSettings", "loadPreferences">>,
   handlers |-> EngineHandlers, controls |-> EngineControls @@ EngineLimits])

QbitHandlers ==
  [handleLoadQbit |-> Do([does |-> <<Get({"qbit"})>>]),
   handleTestQbit |-> Do([busy |-> {"testingQbit"}, does |-> <<Call>>]),
   editQbit       |-> Do([edits |-> {"qbit"}]),
   handleSaveQbit |-> Do([busy |-> {"savingQbit"}, does |-> <<Save({"qbit"})>>,
                          then |-> <<"handleTestQbit">>])]

QbitControls ==
  [editQbit |-> Free, handleTestQbit |-> Off({"testingQbit"}), handleSaveQbit |-> Off({"savingQbit"})]

QbitSettings == PageOf(
  [reads |-> {"qbit"}, busy |-> {"testingQbit", "savingQbit"}, mount |-> <<"handleLoadQbit">>,
   handlers |-> QbitHandlers, controls |-> QbitControls])

--------------------------------------------------------------------------------
(* IndexerSettings.jsx and IndexerHealthCheck.jsx                              *)

\* Switching on an indexer without a URL removes it and adds it again.
IndexerHandlers ==
  [fetchIndexers |-> Do([does |-> <<Get({"indexers"})>>]),
   handleIndexerToggle |-> Do([does |-> <<Put({"indexers"})>>, local |-> {"indexers"}]),
   fixIndexer |-> Do([does |-> <<Put({"indexers"}), Put({"indexers"}), Get({"indexers"})>>]),
   handleAddNewIndexer |-> Do([does |-> <<Put({"indexers"})>>, okLowers |-> {"showAddIndexer"},
                               then |-> <<"fetchIndexers">>]),
   handleTestIndexer   |-> Do([busy |-> {"testingIndexer"}, does |-> <<Call>>]),
   handleDeleteIndexer |-> Do([does |-> <<Put({"indexers"})>>, local |-> {"indexers"}]),
   openAddIndexer |-> Flip({"showAddIndexer"}), closeAddIndexer |-> Shut({"showAddIndexer"})]

\* A preset with a URL is added at once.
IndexerPresets ==
  [addPreset |-> Do([does |-> <<Put({"indexers"})>>, then |-> <<"fetchIndexers">>])]

IndexerControls ==
  [openAddIndexer |-> Off({"showAddIndexer"}), addPreset |-> Free,
   closeAddIndexer |-> In({"showAddIndexer"}), handleAddNewIndexer |-> In({"showAddIndexer"})]
IndexerRows ==
  [handleTestIndexer |-> Free, handleDeleteIndexer |-> Free,
   handleIndexerToggle |-> Free, fixIndexer |-> Free]

\* Each enabled indexer is tested in turn, and each test has a catch of its own.
IndexerHealthCheck == [runHealthCheck |-> Do([busy |-> {"checking"}, does |-> <<Soft(Call), Soft(Call)>>])]
HealthCheckControls == [runHealthCheck |-> Off({"checking"})]

IndexerSettings == PageOf(
  [reads |-> {"indexers"}, busy |-> {"testingIndexer", "checking"}, mount |-> <<"fetchIndexers">>,
   handlers |-> IndexerHandlers @@ IndexerPresets @@ IndexerHealthCheck,
   controls |-> IndexerControls @@ IndexerRows @@ HealthCheckControls])

--------------------------------------------------------------------------------
(* SubtitleSettings.jsx                                                        *)

SubtitleHandlers ==
  [fetchSettings |-> Do([does |-> <<Get({"settings"})>>]),
   handleSave    |-> Do([busy |-> {"saving"}, does |-> <<Save({"settings"})>>]),
   edit          |-> Do([edits |-> {"settings"}]),
   handleTestProvider |-> Do([busy |-> {"testing"}, does |-> <<Call>>])]

\* Providers and their keys, languages, switches.
SubtitleControls ==
  [edit |-> Free, handleSave |-> Off({"saving"}), handleTestProvider |-> Free]

SubtitleSettings == PageOf(
  [reads |-> {"settings"}, busy |-> {"saving", "testing"}, mount |-> <<"fetchSettings">>,
   handlers |-> SubtitleHandlers, controls |-> SubtitleControls])

--------------------------------------------------------------------------------
(* IPTVSettings.jsx, StreamingSettings.jsx, GelatinSettings.jsx                *)

\* Both changes are applied to the list of the render they were pressed in.
IPTVHandlers ==
  [fetchIptvSources |-> Do([busy |-> {"loading"}, does |-> <<Get({"sources"})>>]),
   handleAddIptvSource    |-> Do([busy |-> {"saving"}, does |-> <<Put({"sources"})>>,
                                  local |-> {"sources"}, stale |-> TRUE]),
   handleDeleteIptvSource |-> Do([does |-> <<Put({"sources"})>>, local |-> {"sources"},
                                  stale |-> TRUE])]
IPTVControls ==
  [handleAddIptvSource |-> Off({"saving"}), handleDeleteIptvSource |-> Off({"loading"})]
IPTVSettings == PageOf(
  [reads |-> {"sources"}, busy |-> {"loading", "saving"}, at |-> {"loading"},
   mount |-> <<"fetchIptvSources">>, handlers |-> IPTVHandlers, controls |-> IPTVControls])

StreamingLoginHandlers ==
  [fetchStreamingLogins |-> Do([does |-> <<Get({"logins"})>>]),
   handleAddStreamingService    |-> Do([does |-> <<Put({"logins"})>>,
                                        then |-> <<"fetchStreamingLogins">>]),
   handleDeleteStreamingService |-> Do([does |-> <<Put({"logins"})>>,
                                        then |-> <<"fetchStreamingLogins">>])]
LoginsTab == [handleAddStreamingService |-> Free, handleDeleteStreamingService |-> Free]
StreamingSettings == PageOf(
  [reads |-> {"logins"}, mount |-> <<"fetchStreamingLogins">>,
   handlers |-> StreamingLoginHandlers, controls |-> LoginsTab])

GelatinHandlers ==
  [fetchGelatinStatus |-> Do([does |-> <<Get({"status"})>>]),
   fetchActiveTunnels |-> Do([does |-> <<Get({"tunnels"})>>]),
   handleCreateTunnel |-> Do([busy |-> {"creatingTunnel"}, does |-> <<Put({"tunnels", "status"})>>,
                              local |-> {"tunnels"}, then |-> <<"fetchGelatinStatus">>]),
   handleCloseTunnel  |-> Do([does |-> <<Put({"tunnels", "status"})>>, local |-> {"tunnels"},
                              then |-> <<"fetchGelatinStatus">>]),
   handleGenerateAccessToken |-> Do([does |-> <<Call>>])]
TunnelsTab == [handleCreateTunnel |-> Off({"creatingTunnel"}), handleCloseTunnel |-> Free]
TokensTab  == [handleGenerateAccessToken |-> Free]
GelatinSettings == PageOf(
  [reads |-> {"status", "tunnels"}, busy |-> {"creatingTunnel"},
   mount |-> <<"fetchGelatinStatus", "fetchActiveTunnels">>,
   handlers |-> GelatinHandlers, controls |-> TunnelsTab @@ TokensTab])

--------------------------------------------------------------------------------
(* FFmpegSettings.jsx, ThemeForgeSettings.jsx, MediaHealthSettings.jsx         *)

FFmpegSettings == PageOf(
  [reads |-> {"status"}, busy |-> {"checking"}, at |-> {"checking"}, mount |-> <<"probe">>,
   handlers |-> [probe |-> Do([busy |-> {"checking"}, does |-> <<Get({"status"})>>,
                               blank |-> {"status"}])],
   controls |-> [probe |-> Off({"checking"})]])

\* applyBuiltInTheme and applyCustomColors answer false instead of throwing.
ThemeForgeHandlers ==
  [fetchThemeForgeConfig |-> Do([does |-> <<Get({"theme", "colors"})>>]),
   handleSetTheme        |-> Do([does |-> <<Put({"theme"})>>, then |-> <<"fetchThemeForgeConfig">>]),
   handleSaveCustomTheme |-> Do([busy |-> {"savingTheme"}, does |-> <<Ask({"theme"}, {"colors"}, {})>>,
                                 okLowers |-> {"previewMode"}, then |-> <<"fetchThemeForgeConfig">>]),
   handleColorChange |-> Do([edits |-> {"colors"}]),
   startPreview |-> Flip({"previewMode"}), stopPreview |-> Shut({"previewMode"})]
ThemeForgeControls ==
  [handleSetTheme |-> Free, handleSaveCustomTheme |-> Off({"savingTheme"}), handleColorChange |-> Free,
   startPreview |-> Off({"previewMode"}), stopPreview |-> In({"previewMode"})]
ThemeForgeSettings == PageOf(
  [reads |-> {"theme", "colors"}, busy |-> {"savingTheme"}, mount |-> <<"fetchThemeForgeConfig">>,
   handlers |-> ThemeForgeHandlers, controls |-> ThemeForgeControls])

\* A repair that succeeds scans the directory again.
MediaHealthHandlers ==
  [fetchScheduledScans |-> Do([does |-> <<Get({"scans"})>>]),
   fetchNotifications  |-> Do([does |-> <<Get({"notifications"})>>]),
   handleHealthScan |-> Do([busy |-> {"scanning"}, drops |-> {"rows"}, does |-> <<Get({"files"})>>,
                            okRaises |-> {"rows"}]),
   handleRepairFile |-> Do([busy |-> {"repairing"}, does |-> <<Put({"files"})>>,
                            then |-> <<"handleHealthScan">>]),
   handleRedownload |-> Do([busy |-> {"redownloading"}, does |-> <<Call>>]),
   handleCreateScheduledScan |-> Do([does |-> <<Put({"scans"})>>, then |-> <<"fetchScheduledScans">>]),
   handleDeleteScheduledScan |-> Do([does |-> <<Put({"scans"})>>, then |-> <<"fetchScheduledScans">>]),
   handleRunScanNow |-> Do([busy |-> {"scanning"}, does |-> <<Put({"scans", "notifications"})>>,
                            then |-> <<"fetchScheduledScans", "fetchNotifications">>])]
MediaHealthFiles ==
  [handleHealthScan |-> Off({"scanning"}), handleRepairFile |-> In({"rows"}),
   handleRedownload |-> In({"rows"})]
MediaHealthScans ==
  [handleCreateScheduledScan |-> Free, handleDeleteScheduledScan |-> Free,
   handleRunScanNow |-> Off({"scanning"})]
MediaHealthSettings == PageOf(
  [reads |-> {"scans", "notifications", "files"}, busy |-> {"scanning", "repairing", "redownloading"},
   mount |-> <<"fetchScheduledScans", "fetchNotifications">>,
   handlers |-> MediaHealthHandlers, controls |-> MediaHealthFiles @@ MediaHealthScans])

===============================================================================
