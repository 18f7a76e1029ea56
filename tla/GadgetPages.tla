------------------------------ MODULE GadgetPages ------------------------------
(* The pages of the web client that drive the gadgets                          *)
(* (src/src/web/src/pages/*.jsx): requests, games, backups, feeds, history.    *)
EXTENDS PageKit

-------------------------------------------------------------------------------
(* MenuPage.jsx: what may be requested, and the requests. A search moves the   *)
(* page to the tab "search", whose effect fetches what is upcoming over it.    *)

\* requesting is a map: each item has a flag of its own. Two items are modelled.
MenuRequest(flag) ==
    Do([busy |-> {flag}, does |-> <<Put({"requests", "stats"})>>,
        then |-> <<"fetchRequests", "fetchStats">>])

MenuHandlers ==
  [fetchDiscover |-> Do([busy |-> {"loading"}, drops |-> {"onSearch"}, does |-> <<Get({"items"})>>,
                         okRaises |-> {"cards"}, blank |-> {"items"}]),
   fetchUpcoming |-> Do([busy |-> {"loading"}, does |-> <<Elsewhere(Get({"items"}))>>,
                         blank |-> {"items"}]),
   fetchRequests |-> Do([does |-> <<Get({"requests"})>>, okRaises |-> {"rows"}]),
   fetchStats    |-> Do([does |-> <<Get({"stats"})>>]),
   handleSearch  |-> Do([busy |-> {"searching"}, does |-> <<Get({"items"})>>,
                         okRaises |-> {"onSearch"}, then |-> <<"fetchUpcoming">>]),
   searchAgain   |-> Do([busy |-> {"searching"}, does |-> <<Get({"items"})>>]),
   handleRequest |-> MenuRequest("requesting"),
   requestOther  |-> MenuRequest("requestingOther"),
   handleApprove |-> Do([does |-> <<Put({"requests", "stats"})>>,
                         then |-> <<"fetchRequests", "fetchStats">>]),
   handleDelete  |-> Do([does |-> <<Put({"requests", "stats"})>>,
                         then |-> <<"fetchRequests", "fetchStats">>]),
   handleSaveService |-> Do([does |-> <<Call>>])]

\* Approve stands for decline and fulfil, which end the same way.
MenuControls ==
  [query |-> Off({"onSearch"}), searchAgain |-> In({"onSearch"}),
   handleRequest |-> InOff({"cards"}, {"requesting"}),
   requestOther |-> InOff({"cards"}, {"requestingOther"}), handleApprove |-> In({"rows"}),
   handleDelete |-> In({"rows"}), handleSaveService |-> Free]

MenuPage == PageOf(
  [reads |-> {"items", "requests", "stats"},
   busy |-> {"loading", "searching", "requesting", "requestingOther"},
   mount |-> <<"fetchDiscover", "fetchRequests", "fetchStats">>,
   selects |-> [subTab |-> <<"fetchDiscover", "fetchDiscover">>, query |-> <<"handleSearch">>,
                filter |-> <<"fetchRequests", "fetchStats">>],
   handlers |-> MenuHandlers, controls |-> MenuControls])

-------------------------------------------------------------------------------
(* ParfaitPage.jsx: the same over a remote server. Its lists are fetched when  *)
(* connected goes up, and not again when the server is exchanged for another.  *)

ParfaitLoads ==
  [fetchStatus   |-> Do([busy |-> {"loading"}, does |-> <<Get({"status"})>>,
                         okRaises |-> {"connected"}, failLowers |-> {"connected"},
                         then |-> <<"fetchRequests", "fetchStats", "fetchDiscover">>]),
   fetchRequests |-> Do([does |-> <<Get({"requests"})>>, okRaises |-> {"rows"}]),
   fetchStats    |-> Do([does |-> <<Get({"stats"})>>]),
   fetchDiscover |-> Do([does |-> <<Get({"discover"})>>]),
   statusFirst   |-> Do([does |-> <<Get({"status"})>>, okRaises |-> {"connected"},
                         okLowers |-> {"saving"}, failLowers |-> {"saving", "connected"},
                         then |-> <<"fetchRequests", "fetchStats", "fetchDiscover">>]),
   statusAgain   |-> Do([does |-> <<Get({"status"})>>, okRaises |-> {"connected"},
                         okLowers |-> {"saving"}, failLowers |-> {"saving", "connected"}])]

ParfaitTasks ==
  [connect   |-> Do([raises |-> {"saving"}, does |-> <<Put({"status", "requests", "stats", "discover"})>>,
                     okLowers |-> {"showConfig"}, failLowers |-> {"saving"},
                     then |-> <<"statusFirst">>]),
   reconnect |-> Do([raises |-> {"saving"}, does |-> <<Put({"status", "requests", "stats", "discover"})>>,
                     okLowers |-> {"showConfig"}, failLowers |-> {"saving"},
                     then |-> <<"statusAgain">>]),
   handleSearch  |-> Do([busy |-> {"searching"}, does |-> <<Call>>]),
   handleApprove |-> Do([does |-> <<Put({"requests", "stats"})>>,
                         then |-> <<"fetchRequests", "fetchStats">>]),
   handleDelete  |-> Do([does |-> <<Put({"requests", "stats"})>>,
                         then |-> <<"fetchRequests", "fetchStats">>]),
   handleRequest |-> Do([does |-> <<Put({"requests", "stats"})>>,
                         then |-> <<"fetchRequests", "fetchStats">>]),
   openConfig  |-> Flip({"showConfig"}),
   closeConfig |-> Shut({"showConfig"})]

\* handleSaveConfig is connect or reconnect by whether the page is connected.
ParfaitControls ==
  [openConfig |-> Off({"showConfig"}), closeConfig |-> In({"showConfig"}),
   connect |-> InOff({"showConfig"}, {"saving", "connected"}),
   reconnect |-> InOff({"showConfig", "connected"}, {"saving"}),
   refresh |-> In({"connected"}), filter |-> In({"connected"}), handleSearch |-> In({"connected"}),
   handleApprove |-> In({"connected", "rows"}), handleDelete |-> In({"connected", "rows"}),
   handleRequest |-> In({"connected"})]

ParfaitPage == PageOf(
  [reads |-> {"status", "requests", "stats", "discover"},
   busy |-> {"loading", "saving", "searching"}, hides |-> {"loading"},
   mount |-> <<"fetchStatus">>,
   selects |-> [filter |-> <<"fetchRequests", "fetchStats", "fetchDiscover">>],
   presses |-> [refresh |-> <<"fetchRequests", "fetchStats", "fetchDiscover">>],
   handlers |-> ParfaitLoads @@ ParfaitTasks, controls |-> ParfaitControls])

-------------------------------------------------------------------------------
(* PretzelPage.jsx: the games of the selected system. A game is played in an   *)
(* overlay that hides the page.                                                *)

PretzelHandlers ==
  [fetchGames   |-> Do([does |-> <<Get({"games"})>>, okRaises |-> {"rows"},
                        okLowers |-> {"loading"}, failLowers |-> {"loading"}]),
   fetchSystems |-> Do([does |-> <<Get({"systems"})>>]),
   fetchStats   |-> Do([does |-> <<Get({"stats"})>>]),
   handleAddGame |-> Do([does |-> <<Put({"games", "stats"})>>, okLowers |-> {"showAddGame"},
                         then |-> <<"fetchGames", "fetchStats">>]),
   handleDelete |-> Do([does |-> <<Put({"games", "stats"})>>,
                        then |-> <<"fetchGames", "fetchStats">>]),
   handleFavorite |-> Do([does |-> <<Put({"games"})>>, then |-> <<"fetchGames">>]),
   handlePlay   |-> Do([does |-> <<Soft(Put({"games"}))>>, okRaises |-> {"playing"},
                        then |-> <<"fetchGames">>]),
   stopPlaying  |-> Shut({"playing"}),
   handleScan   |-> Do([busy |-> {"scanning"}, does |-> <<Call>>, okRaises |-> {"scanned"}]),
   handleImportScanned |-> Do([does |-> <<Put({"games", "stats"})>>,
                               okLowers |-> {"showScan", "scanned"},
                               then |-> <<"fetchGames", "fetchStats">>]),
   toggleAdd    |-> Flip({"showAddGame"}),
   toggleScan   |-> Flip({"showScan"})]

PretzelControls ==
  [toggleAdd |-> Off({"playing", "showAddGame"}), toggleScan |-> Off({"playing", "showScan"}),
   handleAddGame |-> InOff({"showAddGame"}, {"playing"}),
   handleScan |-> InOff({"showScan"}, {"playing", "scanning"}),
   handleImportScanned |-> InOff({"showScan", "scanned"}, {"playing"}),
   system |-> Off({"playing"}), handlePlay |-> InOff({"rows"}, {"playing"}),
   handleFavorite |-> InOff({"rows"}, {"playing"}), handleDelete |-> InOff({"rows"}, {"playing"}),
   stopPlaying |-> In({"playing"})]

PretzelPage == PageOf(
  [reads |-> {"games", "systems", "stats"}, busy |-> {"loading", "scanning"}, at |-> {"loading"},
   mount |-> <<"fetchSystems", "fetchStats", "fetchGames">>,
   selects |-> [system |-> <<"fetchGames">>],
   handlers |-> PretzelHandlers, controls |-> PretzelControls])

-------------------------------------------------------------------------------
(* SproutPage.jsx: the feeds and their configuration, edited in place.         *)

SproutHandlers ==
  [fetchData  |-> Do([does |-> <<Get({"feeds", "config"})>>,
                      okLowers |-> {"loading"}, failLowers |-> {"loading"}]),
   generateApiKey |-> Do([does |-> <<Put({"config"})>>, local |-> {"config"}]),
   edit       |-> Do([edits |-> {"config"}]),
   saveConfig |-> Do([does |-> <<Save({"config"})>>])]

SproutControls ==
  [fetchData |-> Free, generateApiKey |-> Free, edit |-> Free, saveConfig |-> Free]

SproutPage == PageOf(
  [reads |-> {"feeds", "config"}, busy |-> {"loading"}, at |-> {"loading"}, hides |-> {"loading"},
   mount |-> <<"fetchData">>, handlers |-> SproutHandlers, controls |-> SproutControls])

-------------------------------------------------------------------------------
(* GlazePage.jsx: scrobbling. Nothing fetches the configuration again.         *)

GlazeHandlers ==
  [fetchData  |-> Do([does |-> <<Get({"config", "history"})>>,
                      okLowers |-> {"loading"}, failLowers |-> {"loading"}]),
   edit       |-> Do([edits |-> {"config"}]),
   saveConfig |-> Do([does |-> <<Save({"config"})>>]),
   syncTrakt  |-> Do([does |-> <<Put({"history"})>>]),
   authorizeTrakt |-> Do([does |-> <<Call>>])]

GlazeControls ==
  [edit |-> Free, saveConfig |-> Free, syncTrakt |-> Free, authorizeTrakt |-> Free]

\* Mutant: the form is shown before what it edits has arrived.
GlazePage_Unloaded == PageOf(
  [reads |-> {"config", "history"}, busy |-> {"loading"}, at |-> {"loading"},
   mount |-> <<"fetchData">>, handlers |-> GlazeHandlers, controls |-> GlazeControls])

GlazePage == PageOf(
  [reads |-> {"config", "history"}, busy |-> {"loading"}, at |-> {"loading"}, hides |-> {"loading"},
   mount |-> <<"fetchData">>, handlers |-> GlazeHandlers, controls |-> GlazeControls])

-------------------------------------------------------------------------------
(* FonduePage.jsx: the movies, their total in the header, the download queue.  *)

FondueHandlers ==
  [fetchData   |-> Do([does |-> <<Get({"movies", "total", "queue", "config"})>>, okRaises |-> {"rows"},
                       okLowers |-> {"loading"}, failLowers |-> {"loading"}]),
   searchMovie |-> Do([does |-> <<Put({"queue"})>>]),
   removeMovie |-> Do([does |-> <<Put({"movies", "total"})>>, local |-> {"movies"}])]

FondueControls ==
  [fetchData |-> Free, searchMovie |-> In({"rows"}), removeMovie |-> In({"rows"})]

FonduePage == PageOf(
  [reads |-> {"movies", "total", "queue", "config"}, busy |-> {"loading"}, at |-> {"loading"},
   hides |-> {"loading"}, mount |-> <<"fetchData">>,
   handlers |-> FondueHandlers, controls |-> FondueControls])

-------------------------------------------------------------------------------
(* RouxPage.jsx: collections; the one asked for last is the selection.         *)

RouxHandlers ==
  [fetchData |-> Do([does |-> <<Get({"collections", "presets"})>>, okRaises |-> {"rows"},
                     okLowers |-> {"loading"}, failLowers |-> {"loading"}]),
   viewCollection    |-> Do([does |-> <<Get({"items"})>>]),
   createCollection  |-> Do([does |-> <<Put({"collections"})>>, okLowers |-> {"showCreate"},
                             then |-> <<"fetchData">>]),
   refreshCollection |-> Do([does |-> <<Put({"collections", "items"})>>]),
   deleteCollection  |-> Do([does |-> <<Put({"collections"})>>, local |-> {"collections"}]),
   openCreate  |-> Flip({"showCreate"}),
   closeCreate |-> Shut({"showCreate"})]

RouxControls ==
  [fetchData |-> Free, openCreate |-> Off({"showCreate"}), closeCreate |-> In({"showCreate"}),
   createCollection |-> In({"showCreate"}), collection |-> In({"rows"}),
   refreshCollection |-> In({"rows"}), deleteCollection |-> In({"rows"})]

RouxPage == PageOf(
  [reads |-> {"collections", "presets", "items"}, busy |-> {"loading"}, at |-> {"loading"},
   hides |-> {"loading"}, mount |-> <<"fetchData">>,
   selects |-> [collection |-> <<"viewCollection">>],
   handlers |-> RouxHandlers, controls |-> RouxControls])

-------------------------------------------------------------------------------
(* SourdoughPage.jsx: backups. The list and the schedule, which is edited in   *)
(* place, are fetched together two seconds after a backup.                     *)

SourdoughHandlers ==
  [fetchData    |-> Do([does |-> <<Get({"backups", "schedule"})>>,
                        okLowers |-> {"loading"}, failLowers |-> {"loading"}]),
   createBackup |-> Do([busy |-> {"creating"}, does |-> <<Put({"backups"})>>,
                        then |-> <<"fetchData">>]),
   exportConfig |-> Do([does |-> <<Call>>]),
   edit         |-> Do([edits |-> {"schedule"}]),
   saveSchedule |-> Do([does |-> <<Save({"schedule"})>>])]

\* The header disables createBackup while creating, the empty list does not.
SourdoughControls ==
  [createBackup |-> Free, exportConfig |-> Free, edit |-> Free, saveSchedule |-> Free]

SourdoughPage == PageOf(
  [reads |-> {"backups", "schedule"}, busy |-> {"loading", "creating"}, at |-> {"loading"},
   hides |-> {"loading"}, mount |-> <<"fetchData">>,
   handlers |-> SourdoughHandlers, controls |-> SourdoughControls])

-------------------------------------------------------------------------------
(* SaffronPage.jsx: scheduled tasks. A task run by hand is shown as running    *)
(* for three seconds, whatever it does.                                        *)

SaffronHandlers ==
  [fetchData |-> Do([does |-> <<Get({"tasks", "history"})>>, okRaises |-> {"rows"},
                     okLowers |-> {"loading"}, failLowers |-> {"loading"}]),
   runTask   |-> Do([raises |-> {"running"}, does |-> <<Put({"tasks", "history"})>>,
                     okRaises |-> {"ran"}, failLowers |-> {"running"}]),
   ran       |-> Shut({"running", "ran"})]

SaffronControls == [fetchData |-> Free, runTask |-> InOff({"rows"}, {"running"})]

SaffronPage == PageOf(
  [reads |-> {"tasks", "history"}, busy |-> {"loading", "running"}, at |-> {"loading"},
   hides |-> {"loading"}, mount |-> <<"fetchData">>, timers |-> [ran |-> In({"ran"})],
   handlers |-> SaffronHandlers, controls |-> SaffronControls])

-------------------------------------------------------------------------------
(* ChurroPage.jsx: download clients.                                           *)

ChurroHandlers ==
  [fetchData    |-> Do([does |-> <<Get({"clients", "categories"})>>, okRaises |-> {"rows"},
                        okLowers |-> {"loading"}, failLowers |-> {"loading"}]),
   testClient   |-> Do([busy |-> {"testing"}, does |-> <<Call>>]),
   removeClient |-> Do([does |-> <<Put({"clients"})>>, local |-> {"clients"}])]

ChurroControls ==
  [fetchData |-> Free, testClient |-> In({"rows"}), removeClient |-> In({"rows"})]

ChurroPage == PageOf(
  [reads |-> {"clients", "categories"}, busy |-> {"loading", "testing"}, at |-> {"loading"},
   hides |-> {"loading"}, mount |-> <<"fetchData">>,
   handlers |-> ChurroHandlers, controls |-> ChurroControls])

-------------------------------------------------------------------------------
(* LobsterPage.jsx: remote access, polled every five seconds.                  *)

\* Mutant: pairing is lowered in the try, not in the finally.
LobsterHandlers_NoFinally ==
  [fetchStatus  |-> Do([does |-> <<Get({"status", "peers"})>>,
                        okLowers |-> {"loading"}, failLowers |-> {"loading"}]),
   handleToggle |-> Do([does |-> <<Put({"status"})>>, then |-> <<"fetchStatus">>]),
   handlePair   |-> Do([raises |-> {"pairing"}, does |-> <<Call>>, okLowers |-> {"pairing"}])]

LobsterHandlers ==
  [fetchStatus  |-> Do([does |-> <<Get({"status", "peers"})>>,
                        okLowers |-> {"loading"}, failLowers |-> {"loading"}]),
   handleToggle |-> Do([does |-> <<Put({"status"})>>, then |-> <<"fetchStatus">>]),
   handlePair   |-> Do([busy |-> {"pairing"}, does |-> <<Call>>])]

LobsterControls == [handleToggle |-> Free, handlePair |-> Off({"pairing"})]

LobsterPage == PageOf(
  [reads |-> {"status", "peers"}, busy |-> {"loading", "pairing"}, at |-> {"loading"},
   hides |-> {"loading"}, mount |-> <<"fetchStatus">>, timers |-> [fetchStatus |-> Free],
   handlers |-> LobsterHandlers, controls |-> LobsterControls])

-------------------------------------------------------------------------------
(* BiscottiPage.jsx: books and comics. A scan is imported file by file, each   *)
(* failure passed over.                                                        *)

BiscottiHandlers ==
  [fetchItems |-> Do([does |-> <<Get({"items"})>>, okRaises |-> {"rows"},
                      okLowers |-> {"loading"}, failLowers |-> {"loading"}]),
   fetchStats |-> Do([does |-> <<Get({"stats"})>>]),
   handleAdd  |-> Do([does |-> <<Put({"items", "stats"})>>, okLowers |-> {"showAdd"},
                      then |-> <<"fetchItems", "fetchStats">>]),
   handleDelete |-> Do([does |-> <<Put({"items", "stats"})>>,
                        then |-> <<"fetchItems", "fetchStats">>]),
   handleScan |-> Do([does |-> <<Call>>, okRaises |-> {"scanned"}]),
   handleImportScan |-> Do([does |-> <<Soft(Put({"items", "stats"})), Soft(Put({"items", "stats"}))>>,
                            okLowers |-> {"showScan", "scanned"},
                            then |-> <<"fetchItems", "fetchStats">>]),
   toggleAdd  |-> Flip({"showAdd"}),
   toggleScan |-> Flip({"showScan"})]

BiscottiControls ==
  [toggleAdd |-> Off({"showAdd"}), toggleScan |-> Off({"showScan"}), handleAdd |-> In({"showAdd"}),
   handleScan |-> In({"showScan"}), handleImportScan |-> In({"showScan", "scanned"}),
   handleDelete |-> In({"rows"})]

BiscottiPage == PageOf(
  [reads |-> {"items", "stats"}, busy |-> {"loading"}, at |-> {"loading"},
   mount |-> <<"fetchItems", "fetchStats">>, selects |-> [typeOrQuery |-> <<"fetchItems", "fetchStats">>],
   handlers |-> BiscottiHandlers, controls |-> BiscottiControls])

-------------------------------------------------------------------------------
(* ChowderPage.jsx: other servers browsed, and what is copied from them. The   *)
(* server, then the library browsed, are the selection.                        *)

ChowderHandlers ==
  [fetchAll     |-> Do([does |-> <<Soft(Get({"servers", "queue", "stats", "history"}))>>,
                        okRaises |-> {"rows"}, okLowers |-> {"loading"}]),
   fetchServers |-> Do([does |-> <<Get({"servers"})>>]),
   fetchQueue   |-> Do([does |-> <<Get({"queue"})>>]),
   fetchStats   |-> Do([does |-> <<Get({"stats"})>>]),
   handleAddServer |-> Do([does |-> <<Put({"servers", "stats"})>>, okLowers |-> {"showAddServer"},
                           then |-> <<"fetchServers", "fetchStats">>]),
   handleDeleteServer |-> Do([does |-> <<Put({"servers", "stats"})>>,
                              then |-> <<"fetchServers", "fetchStats">>]),
   handleBrowseServer |-> Do([does |-> <<Get({"libraries"})>>, okRaises |-> {"libraries"}]),
   handleBrowseLibrary |-> Do([does |-> <<Get({"items"})>>, okRaises |-> {"items"}]),
   handleQueueItem |-> Do([does |-> <<Put({"queue", "stats"})>>, then |-> <<"fetchQueue">>]),
   handleRemoveQueue |-> Do([does |-> <<Put({"queue", "stats"})>>, then |-> <<"fetchQueue">>]),
   toggleAdd    |-> Flip({"showAddServer"})]

\* Pause all and resume all end as the removal from the queue does.
ChowderControls ==
  [toggleAdd |-> Off({"showAddServer"}), handleAddServer |-> In({"showAddServer"}),
   handleDeleteServer |-> In({"rows"}), server |-> In({"rows"}), library |-> In({"libraries"}),
   handleQueueItem |-> In({"items"}), handleRemoveQueue |-> In({"rows"})]

ChowderPage == PageOf(
  [reads |-> {"servers", "queue", "stats", "history", "libraries", "items"},
   busy |-> {"loading"}, at |-> {"loading"}, hides |-> {"loading"}, mount |-> <<"fetchAll">>,
   selects |-> [server |-> <<"handleBrowseServer">>, library |-> <<"handleBrowseLibrary">>],
   handlers |-> ChowderHandlers, controls |-> ChowderControls])

===============================================================================
