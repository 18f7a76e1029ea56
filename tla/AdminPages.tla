------------------------------- MODULE AdminPages ------------------------------
(* The pages of the web client that look after the server                      *)
(* (src/src/web/src/pages): indexers, libraries, logs, lists.                  *)
EXTENDS PageKit

-------------------------------------------------------------------------------
(* IndexerSearchPage.js. The button waits for the search that is under way,    *)
(* the Enter key does not: a new query starts one at any time. Each result has *)
(* a flag of its own in grabbing; two results are modelled.                    *)

IndexerSearchHandlers ==
  [handleSearch |-> Do([busy |-> {"searching"}, drops |-> {"searchDone"}, does |-> <<Get({"results"})>>,
                        okRaises |-> {"searchDone", "rows"}]),
   handleGrab   |-> Do([busy |-> {"grabbing"}, does |-> <<Call>>]),
   grabOther    |-> Do([busy |-> {"grabbingOther"}, does |-> <<Call>>])]

IndexerSearchControls ==
  [handleSearch |-> Free, query |-> Free, handleGrab |-> InOff({"rows"}, {"grabbing"}),
   grabOther |-> InOff({"rows"}, {"grabbingOther"})]

IndexerSearchPage == PageOf(
  [reads |-> {"results"}, busy |-> {"searching", "grabbing", "grabbingOther"},
   selects |-> [query |-> <<"handleSearch">>],
   handlers |-> IndexerSearchHandlers, controls |-> IndexerSearchControls])

-------------------------------------------------------------------------------
(* LibraryManagerPage.js                                                       *)

LibraryManagerHandlers ==
  [load      |-> Do([busy |-> {"loading"}, does |-> <<Get({"libraries"})>>, okRaises |-> {"rows"}]),
   handleAdd |-> Do([does |-> <<Put({"libraries"})>>, okLowers |-> {"showAdd"}, then |-> <<"load">>]),
   handleScan   |-> Do([busy |-> {"scanning"}, does |-> <<Put({"libraries"})>>, then |-> <<"load">>]),
   handleDelete |-> Do([does |-> <<Put({"libraries"})>>, then |-> <<"load">>]),
   openAdd   |-> Flip({"showAdd"}),
   closeAdd  |-> Shut({"showAdd"})]

LibraryManagerControls ==
  [load |-> Free, openAdd |-> Off({"showAdd"}), closeAdd |-> In({"showAdd"}),
   handleAdd |-> In({"showAdd"}), handleDelete |-> In({"rows"})]

\* scanning is the library last pressed: the button of another is not off.
LibraryCard == [handleScan |-> In({"rows"})]

LibraryManagerPage == PageOf(
  [reads |-> {"libraries"}, busy |-> {"loading", "scanning"}, mount |-> <<"load">>,
   handlers |-> LibraryManagerHandlers, controls |-> LibraryManagerControls @@ LibraryCard])

-------------------------------------------------------------------------------
(* MediaBrowserPage.js: the libraries, then what is in each.                   *)

MediaBrowserHandlers ==
  [load   |-> Do([busy |-> {"loading"}, does |-> <<Get({"libraries"}), Soft(Get({"media"}))>>,
                  okRaises |-> {"cards"}]),
   select |-> Flip({"detail"}),
   close  |-> Shut({"detail"})]

MediaBrowserControls ==
  [load |-> Free, select |-> InOff({"cards"}, {"loading", "detail"}), close |-> In({"detail"})]

MediaBrowserPage == PageOf(
  [reads |-> {"libraries", "media"}, busy |-> {"loading"}, mount |-> <<"load">>,
   handlers |-> MediaBrowserHandlers, controls |-> MediaBrowserControls])

-------------------------------------------------------------------------------
(* LogViewerPage.js. The level is the selection; while auto refresh is on the  *)
(* log is fetched every three seconds.                                         *)

LogViewerHandlers ==
  [loadLogs   |-> Do([does |-> <<Get({"logs"})>>, okLowers |-> {"loading"}, failLowers |-> {"loading"}]),
   loadFiles  |-> Do([does |-> <<Get({"files"})>>, okRaises |-> {"rows"}]),
   loadSystem |-> Do([does |-> <<Get({"system"})>>]),
   handleDeleteFile |-> Do([does |-> <<Put({"files"})>>, then |-> <<"loadFiles">>]),
   autoOn     |-> Flip({"autoRefresh"}),
   autoOff    |-> Shut({"autoRefresh"})]

LogViewerControls ==
  [loadLogs |-> Free, autoOn |-> Off({"autoRefresh"}), autoOff |-> In({"autoRefresh"}),
   handleDeleteFile |-> In({"rows"})]

LogViewerPage == PageOf(
  [reads |-> {"logs", "files", "system"}, busy |-> {"loading"}, at |-> {"loading"},
   mount |-> <<"loadLogs", "loadFiles", "loadSystem">>,
   selects |-> [level |-> <<"loadLogs", "loadFiles", "loadSystem">>],
   timers |-> [loadLogs |-> In({"autoRefresh"})],
   handlers |-> LogViewerHandlers, controls |-> LogViewerControls])

-------------------------------------------------------------------------------
(* SystemPage.js, WatchlistPage.js and WatchHistoryPage.js.                    *)

SystemPage == PageOf(
  [reads |-> {"health", "info"}, busy |-> {"loading"}, mount |-> <<"load">>,
   handlers |-> [load |-> Do([busy |-> {"loading"}, does |-> <<Get({"health", "info"})>>])],
   controls |-> [load |-> Free]])

WatchlistPage == PageOf(
  [reads |-> {"watchlist"}, busy |-> {"loading"}, at |-> {"loading"}, hides |-> {"loading"},
   mount |-> <<"fetchWatchlist">>,
   handlers |->
     [fetchWatchlist |-> Do([does |-> <<Get({"watchlist"})>>, okRaises |-> {"rows"},
                             okLowers |-> {"loading"}, failLowers |-> {"loading"}]),
      handleRemove |-> Do([does |-> <<Put({"watchlist"})>>, local |-> {"watchlist"}])],
   controls |-> [handleRemove |-> In({"rows"})]])

WatchHistoryPage == PageOf(
  [reads |-> {"history"}, busy |-> {"loading"}, at |-> {"loading"}, hides |-> {"loading"},
   mount |-> <<"fetchHistory">>,
   handlers |-> [fetchHistory |-> Do([does |-> <<Get({"history"})>>,
                                      okLowers |-> {"loading"}, failLowers |-> {"loading"}])]])

===============================================================================
