------------------------------ MODULE ServicePages -----------------------------
(* The pages of the web client for the gadgets' services                       *)
(* (src/src/web/src/pages/gadgets and the small pages of src/pages).           *)
EXTENDS PageKit

-------------------------------------------------------------------------------
(* NotificationsPage.jsx, RequestsPage.jsx, ProcessingPage.jsx: a list, a form *)
(* that adds to it, a fetch of the list after each change.                     *)

NotificationsHandlers ==
  [fetchData     |-> Do([does |-> <<Get({"channels", "history"})>>, okRaises |-> {"rows"},
                         okLowers |-> {"loading"}, failLowers |-> {"loading"}]),
   addChannel    |-> Do([does |-> <<Put({"channels"})>>, okLowers |-> {"showAdd"}, then |-> <<"fetchData">>]),
   deleteChannel |-> Do([does |-> <<Put({"channels"})>>, then |-> <<"fetchData">>]),
   testChannel   |-> Do([does |-> <<Put({"history"})>>]),
   openAdd  |-> Flip({"showAdd"}),
   closeAdd |-> Shut({"showAdd"})]
NotificationsControls ==
  [openAdd |-> Off({"showAdd"}), closeAdd |-> In({"showAdd"}), addChannel |-> In({"showAdd"}),
   deleteChannel |-> In({"rows"}), testChannel |-> In({"rows"})]
NotificationsPage == PageOf(
  [reads |-> {"channels", "history"}, busy |-> {"loading"}, at |-> {"loading"}, mount |-> <<"fetchData">>,
   handlers |-> NotificationsHandlers, controls |-> NotificationsControls])

RequestsHandlers ==
  [fetchRequests |-> Do([does |-> <<Get({"requests"})>>,
                         okLowers |-> {"loading"}, failLowers |-> {"loading"}]),
   submitRequest |-> Do([does |-> <<Put({"requests"})>>, okLowers |-> {"showAdd"},
                         then |-> <<"fetchRequests">>]),
   openAdd  |-> Flip({"showAdd"}),
   closeAdd |-> Shut({"showAdd"})]
RequestsControls ==
  [openAdd |-> Off({"showAdd"}), closeAdd |-> In({"showAdd"}), submitRequest |-> In({"showAdd"})]
RequestsPage == PageOf(
  [reads |-> {"requests"}, busy |-> {"loading"}, at |-> {"loading"}, mount |-> <<"fetchRequests">>,
   handlers |-> RequestsHandlers, controls |-> RequestsControls])

\* The jobs are polled every ten seconds as well.
ProcessingHandlers ==
  [fetchJobs |-> Do([does |-> <<Get({"jobs"})>>, okRaises |-> {"rows"},
                     okLowers |-> {"loading"}, failLowers |-> {"loading"}]),
   submitJob |-> Do([does |-> <<Put({"jobs"})>>, okLowers |-> {"showAdd"}, then |-> <<"fetchJobs">>]),
   cancelJob |-> Do([does |-> <<Put({"jobs"})>>, then |-> <<"fetchJobs">>]),
   openAdd  |-> Flip({"showAdd"}),
   closeAdd |-> Shut({"showAdd"})]
ProcessingControls ==
  [openAdd |-> Off({"showAdd"}), closeAdd |-> In({"showAdd"}), submitJob |-> In({"showAdd"}),
   cancelJob |-> In({"rows"})]
ProcessingPage == PageOf(
  [reads |-> {"jobs"}, busy |-> {"loading"}, at |-> {"loading"}, mount |-> <<"fetchJobs">>,
   timers |-> [fetchJobs |-> Free], handlers |-> ProcessingHandlers, controls |-> ProcessingControls])

-------------------------------------------------------------------------------
(* AnalyticsPage.jsx: the period is the selection.                             *)

AnalyticsPage == PageOf(
  [reads |-> {"stats", "recent"}, busy |-> {"loading"}, at |-> {"loading"}, mount |-> <<"fetchData">>,
   selects |-> [period |-> <<"fetchData">>],
   handlers |-> [fetchData |-> Do([does |-> <<Get({"stats", "recent"})>>,
                                   okLowers |-> {"loading"}, failLowers |-> {"loading"}])]])

-------------------------------------------------------------------------------
(* ParentalControlsPage.jsx: the profile is edited in place; a save fetches it *)
(* again, over what has been typed since.                                      *)

ParentalHandlers ==
  [fetchProfile |-> Do([does |-> <<Get({"profile"})>>,
                        okLowers |-> {"loading"}, failLowers |-> {"loading"}]),
   edit         |-> Do([edits |-> {"profile"}]),
   saveProfile  |-> Do([does |-> <<Save({"profile"})>>, then |-> <<"fetchProfile">>])]
ParentalControls == [edit |-> Off({"loading"}), saveProfile |-> Off({"loading"})]
ParentalControlsPage == PageOf(
  [reads |-> {"profile"}, busy |-> {"loading"}, at |-> {"loading"}, mount |-> <<"fetchProfile">>,
   handlers |-> ParentalHandlers, controls |-> ParentalControls])

-------------------------------------------------------------------------------
(* PhotosPage.jsx: photo libraries; the one opened is the selection.           *)

PhotosHandlers ==
  [fetchLibraries |-> Do([busy |-> {"loading"}, does |-> <<Get({"libraries"})>>, okRaises |-> {"rows"}]),
   addLibrary    |-> Do([does |-> <<Put({"libraries"})>>, okLowers |-> {"showAdd"},
                         then |-> <<"fetchLibraries">>]),
   deleteLibrary |-> Do([does |-> <<Put({"libraries"})>>, local |-> {"libraries"}]),
   scanLibrary   |-> Do([does |-> <<Put({"libraries", "photos"})>>]),
   selectLibrary |-> Do([does |-> <<Get({"photos"})>>]),
   openAdd       |-> Flip({"showAdd"}),
   closeAdd      |-> Shut({"showAdd"})]

PhotosControls ==
  [openAdd |-> Off({"showAdd"}), closeAdd |-> In({"showAdd"}), addLibrary |-> In({"showAdd"}),
   deleteLibrary |-> In({"rows"}), scanLibrary |-> In({"rows"}), library |-> In({"rows"})]

PhotosPage == PageOf(
  [reads |-> {"libraries", "photos"}, busy |-> {"loading"}, mount |-> <<"fetchLibraries">>,
   selects |-> [library |-> <<"selectLibrary">>],
   handlers |-> PhotosHandlers, controls |-> PhotosControls])

-------------------------------------------------------------------------------
(* PodcastsPage.jsx: subscriptions; the podcast opened is the selection.       *)

PodcastsHandlers ==
  [fetchSubscriptions |-> Do([busy |-> {"loading"}, does |-> <<Get({"subscriptions"})>>,
                              okRaises |-> {"rows"}]),
   subscribe      |-> Do([does |-> <<Put({"subscriptions"})>>, okLowers |-> {"showAdd"},
                          then |-> <<"fetchSubscriptions">>]),
   unsubscribe    |-> Do([does |-> <<Put({"subscriptions"})>>, local |-> {"subscriptions"}]),
   selectPodcast  |-> Do([does |-> <<Get({"episodes"})>>, okRaises |-> {"opened"}]),
   refreshPodcast |-> Do([does |-> <<Put({"episodes"})>>, then |-> <<"selectPodcast">>]),
   openAdd        |-> Flip({"showAdd"}),
   closeAdd       |-> Shut({"showAdd"})]

\* The refresh of the podcast that is open; another one's shows nothing new.
PodcastsControls ==
  [openAdd |-> Off({"showAdd"}), closeAdd |-> In({"showAdd"}), subscribe |-> In({"showAdd"}),
   unsubscribe |-> In({"rows"}), podcast |-> In({"rows"}), refreshPodcast |-> In({"opened"})]

PodcastsPage == PageOf(
  [reads |-> {"subscriptions", "episodes"}, busy |-> {"loading"}, mount |-> <<"fetchSubscriptions">>,
   selects |-> [podcast |-> <<"selectPodcast">>],
   handlers |-> PodcastsHandlers, controls |-> PodcastsControls])

-------------------------------------------------------------------------------
(* RadioPage.jsx: the query, country or genre searched for is the selection.   *)

RadioHandlers ==
  [fetchStations  |-> Do([busy |-> {"loading"}, does |-> <<Get({"stations"})>>, okRaises |-> {"rows"}]),
   fetchFavorites |-> Do([does |-> <<Get({"favorites"})>>]),
   fetchFilters   |-> Do([does |-> <<Get({"filters"})>>]),
   toggleFavorite |-> Do([does |-> <<Put({"favorites"})>>, local |-> {"favorites"}])]

RadioControls == [toggleFavorite |-> In({"rows"})]

RadioPage == PageOf(
  [reads |-> {"stations", "favorites", "filters"}, busy |-> {"loading"},
   mount |-> <<"fetchStations", "fetchFavorites", "fetchFilters">>,
   selects |-> [filter |-> <<"fetchStations">>],
   handlers |-> RadioHandlers, controls |-> RadioControls])

-------------------------------------------------------------------------------
(* UsenetPage.jsx: the configurations of two services are fetched together, so *)
(* that the save of one overwrites what has been typed for the other.          *)

UsenetHandlers ==
  [fetchConfigs |-> Do([does |-> <<Get({"brine", "ladle"})>>,
                        okLowers |-> {"loading"}, failLowers |-> {"loading"}]),
   editBrine    |-> Do([edits |-> {"brine"}]),
   editLadle    |-> Do([edits |-> {"ladle"}]),
   saveBrineConfig |-> Do([does |-> <<Save({"brine"})>>, okLowers |-> {"showBrineConfig"},
                           then |-> <<"fetchConfigs">>]),
   saveLadleConfig |-> Do([does |-> <<Save({"ladle"})>>, okLowers |-> {"showLadleConfig"},
                           then |-> <<"fetchConfigs">>]),
   searchUsenet |-> Do([busy |-> {"searching"}, does |-> <<Call>>, okRaises |-> {"found"}]),
   grabRelease  |-> Do([does |-> <<Call>>]),
   openBrine    |-> Flip({"showBrineConfig"}),
   openLadle    |-> Flip({"showLadleConfig"})]

UsenetControls ==
  [openBrine |-> Off({"showBrineConfig"}), editBrine |-> In({"showBrineConfig"}),
   saveBrineConfig |-> In({"showBrineConfig"}),
   openLadle |-> Off({"showLadleConfig"}), editLadle |-> In({"showLadleConfig"}),
   saveLadleConfig |-> In({"showLadleConfig"}),
   searchUsenet |-> Free, grabRelease |-> In({"found"})]

UsenetPage == PageOf(
  [reads |-> {"brine", "ladle"}, busy |-> {"loading", "searching"}, at |-> {"loading"},
   mount |-> <<"fetchConfigs">>, handlers |-> UsenetHandlers, controls |-> UsenetControls])

-------------------------------------------------------------------------------
(* WeatherPage.jsx: the location is the selection, saved when it is chosen.    *)

WeatherHandlers ==
  [loadSettings   |-> Do([does |-> <<Call>>, then |-> <<"fetchWeather">>, rescue |-> <<"fetchDefault">>]),
   fetchWeather   |-> Do([busy |-> {"loading"}, does |-> <<Get({"weather"})>>]),
   fetchDefault   |-> Do([busy |-> {"loading"}, does |-> <<Elsewhere(Get({"weather"}))>>]),
   searchLocation |-> Do([does |-> <<Call>>, okRaises |-> {"found"}]),
   selectLocation |-> Do([drops |-> {"showSearch", "found"}, does |-> <<Call>>,
                          then |-> <<"fetchWeather">>]),
   toggleSearch   |-> Flip({"showSearch"})]

WeatherControls ==
  [toggleSearch |-> Off({"showSearch"}), searchLocation |-> In({"showSearch"}),
   location |-> In({"showSearch", "found"}), fetchWeather |-> Free]

WeatherPage == PageOf(
  [reads |-> {"weather"}, busy |-> {"loading"}, at |-> {"loading"}, mount |-> <<"loadSettings">>,
   selects |-> [location |-> <<"selectLocation">>],
   handlers |-> WeatherHandlers, controls |-> WeatherControls])

-------------------------------------------------------------------------------
(* WebVideoPage.jsx: what the typed address leads to; a play is entered in the *)
(* history without waiting, the lists are fetched when their tab is opened.    *)

WebVideoHandlers ==
  [searchVideo   |-> Do([busy |-> {"loading"}, drops |-> {"video"}, does |-> <<Get({"video"})>>,
                         okRaises |-> {"video"}, blank |-> {"video"}]),
   playVideo     |-> Do([busy |-> {"loading"}, does |-> <<Call>>, okRaises |-> {"playing"},
                         then |-> <<"enterHistory">>]),
   enterHistory  |-> Do([does |-> <<Put({"history"})>>]),
   loadBookmarks |-> Do([does |-> <<Get({"bookmarks"})>>, okRaises |-> {"rows"}]),
   loadHistory   |-> Do([does |-> <<Get({"history"})>>]),
   addBookmark   |-> Do([does |-> <<Put({"bookmarks"})>>, then |-> <<"loadBookmarks">>]),
   removeBookmark |-> Do([does |-> <<Put({"bookmarks"})>>, local |-> {"bookmarks"}])]

\* The large play button waits for loading, the row of formats does not.
WebVideoControls ==
  [playVideo |-> In({"video"}), loadBookmarks |-> Free, loadHistory |-> Free,
   addBookmark |-> In({"video"}), removeBookmark |-> In({"rows"})]

WebVideoPage == PageOf(
  [reads |-> {"video", "bookmarks", "history"}, busy |-> {"loading"},
   selects |-> [address |-> <<"searchVideo">>],
   handlers |-> WebVideoHandlers, controls |-> WebVideoControls])

-------------------------------------------------------------------------------
(* MarshmallowPage.jsx, PopsiclePage.jsx and PreservesPage.jsx: a form that is *)
(* fetched together with what it configures. The form of Preserves is not.     *)

MarshmallowHandlers ==
  [fetch_     |-> Do([does |-> <<Get({"status", "config"})>>,
                      okLowers |-> {"loading"}, failLowers |-> {"loading"}]),
   handleSync |-> Do([busy |-> {"syncing"}, does |-> <<Put({"status"})>>, then |-> <<"fetch_">>]),
   edit       |-> Do([edits |-> {"config"}]),
   handleSaveConfig |-> Do([does |-> <<Save({"config"})>>, okLowers |-> {"showConfig"},
                            then |-> <<"fetch_">>]),
   openConfig |-> Flip({"showConfig"})]
MarshmallowControls ==
  [openConfig |-> Off({"showConfig"}), handleSync |-> Off({"syncing"}), edit |-> In({"showConfig"}),
   handleSaveConfig |-> In({"showConfig"})]
MarshmallowPage == PageOf(
  [reads |-> {"status", "config"}, busy |-> {"loading", "syncing"}, at |-> {"loading"},
   mount |-> <<"fetch_">>, handlers |-> MarshmallowHandlers, controls |-> MarshmallowControls])

PopsicleHandlers ==
  [fetch_       |-> Do([does |-> <<Get({"downloads", "settings"})>>, okRaises |-> {"rows", "settings"},
                        okLowers |-> {"loading"}, failLowers |-> {"loading"}]),
   handleDelete |-> Do([does |-> <<Put({"downloads"})>>, then |-> <<"fetch_">>]),
   edit         |-> Do([edits |-> {"settings"}]),
   handleSaveSettings |-> Do([does |-> <<Save({"settings"})>>, okLowers |-> {"showSettings"}]),
   openSettings |-> Flip({"showSettings"})]
PopsicleControls ==
  [openSettings |-> Off({"showSettings"}), handleDelete |-> In({"rows"}),
   edit |-> In({"showSettings", "settings"}), handleSaveSettings |-> In({"showSettings", "settings"})]
PopsiclePage == PageOf(
  [reads |-> {"downloads", "settings"}, busy |-> {"loading"}, at |-> {"loading"}, mount |-> <<"fetch_">>,
   handlers |-> PopsicleHandlers, controls |-> PopsicleControls])

PreservesHandlers ==
  [fetch_       |-> Do([does |-> <<Get({"config", "backups"})>>, okRaises |-> {"rows"},
                        okLowers |-> {"loading"}, failLowers |-> {"loading"}]),
   handleSaveConfig |-> Do([does |-> <<Put({"config"})>>, okLowers |-> {"showConfig"},
                            then |-> <<"fetch_">>]),
   handleCreateBackup |-> Do([does |-> <<Put({"backups"})>>, then |-> <<"fetch_">>]),
   handleDelete |-> Do([does |-> <<Put({"backups"})>>, then |-> <<"fetch_">>]),
   openConfig   |-> Flip({"showConfig"})]
PreservesControls ==
  [openConfig |-> Off({"showConfig"}), handleSaveConfig |-> In({"showConfig"}),
   handleCreateBackup |-> In({"rows"}), handleDelete |-> In({"rows"})]
PreservesPage == PageOf(
  [reads |-> {"config", "backups"}, busy |-> {"loading"}, at |-> {"loading"}, mount |-> <<"fetch_">>,
   handlers |-> PreservesHandlers, controls |-> PreservesControls])

-------------------------------------------------------------------------------
(* SagePage.jsx, TerrinePage.jsx, TreaclePage.jsx and ChangelogPage.jsx.       *)

\* Each recommendation has a flag of its own in requesting; two are modelled.
SageHandlers ==
  [fetchRecs     |-> Do([busy |-> {"loading"}, does |-> <<Get({"recs"})>>, okRaises |-> {"cards"}]),
   handleRequest |-> Do([busy |-> {"requesting"}, does |-> <<Call>>]),
   requestOther  |-> Do([busy |-> {"requestingOther"}, does |-> <<Call>>])]
SagePage == PageOf(
  [reads |-> {"recs"}, busy |-> {"loading", "requesting", "requestingOther"}, at |-> {"loading"},
   mount |-> <<"fetchRecs">>, handlers |-> SageHandlers,
   controls |-> [fetchRecs |-> Free, handleRequest |-> InOff({"cards"}, {"loading", "requesting"}),
                 requestOther |-> InOff({"cards"}, {"loading", "requestingOther"})]])

TerrineHandlers ==
  [fetch_       |-> Do([does |-> <<Get({"recordings", "stats"})>>, okRaises |-> {"rows"},
                        okLowers |-> {"loading"}, failLowers |-> {"loading"}]),
   handleAdd    |-> Do([does |-> <<Put({"recordings", "stats"})>>, okLowers |-> {"showAdd"},
                        then |-> <<"fetch_">>]),
   handleDelete |-> Do([does |-> <<Put({"recordings", "stats"})>>, then |-> <<"fetch_">>]),
   toggleAdd    |-> Flip({"showAdd"})]
TerrinePage == PageOf(
  [reads |-> {"recordings", "stats"}, busy |-> {"loading"}, at |-> {"loading"}, mount |-> <<"fetch_">>,
   handlers |-> TerrineHandlers,
   controls |-> [toggleAdd |-> Off({"showAdd"}), handleAdd |-> In({"showAdd"}),
                 handleDelete |-> In({"rows"})]])

TreacleHandlers ==
  [fetchTracks  |-> Do([does |-> <<Get({"tracks"})>>, okRaises |-> {"rows"},
                        okLowers |-> {"loading"}, failLowers |-> {"loading"}]),
   fetchStats   |-> Do([does |-> <<Get({"stats"})>>]),
   handleAdd    |-> Do([does |-> <<Put({"tracks", "stats"})>>, okLowers |-> {"showAdd"},
                        then |-> <<"fetchTracks", "fetchStats">>]),
   handleDelete |-> Do([does |-> <<Put({"tracks", "stats"})>>,
                        then |-> <<"fetchTracks", "fetchStats">>]),
   handleScan   |-> Do([does |-> <<Call>>, okRaises |-> {"scanned"}]),
   handleImport |-> Do([does |-> <<Soft(Put({"tracks", "stats"})), Soft(Put({"tracks", "stats"}))>>,
                        okLowers |-> {"showScan", "scanned"},
                        then |-> <<"fetchTracks", "fetchStats">>]),
   toggleAdd    |-> Flip({"showAdd"}),
   toggleScan   |-> Flip({"showScan"})]
TreacleControls ==
  [toggleAdd |-> Off({"showAdd"}), toggleScan |-> Off({"showScan"}), handleAdd |-> In({"showAdd"}),
   handleScan |-> In({"showScan"}), handleImport |-> In({"showScan", "scanned"}),
   handleDelete |-> In({"rows"})]
TreaclePage == PageOf(
  [reads |-> {"tracks", "stats"}, busy |-> {"loading"}, at |-> {"loading"},
   mount |-> <<"fetchTracks", "fetchStats">>, selects |-> [query |-> <<"fetchTracks", "fetchStats">>],
   handlers |-> TreacleHandlers, controls |-> TreacleControls])

ChangelogPage == PageOf(
  [reads |-> {"content"}, busy |-> {"loading"}, at |-> {"loading"}, mount |-> <<"fetchContent">>,
   handlers |-> [fetchContent |-> Do([does |-> <<Get({"content"})>>,
                                      okLowers |-> {"loading"}, failLowers |-> {"loading"}])]])

-------------------------------------------------------------------------------
(* ThemeCommunityPage.js: themes, installed and applied.                       *)

ThemeCommunityHandlers ==
  [fetchInstalledThemes |-> Do([does |-> <<Get({"installed"})>>]),
   handleInstall |-> Do([busy |-> {"installing"}, does |-> <<Put({"installed"})>>,
                         then |-> <<"fetchInstalledThemes">>]),
   \* a theme that is not installed yet is installed first
   handleApply   |-> Do([does |-> <<Put({"installed"}), Call>>]),
   openTheme     |-> Flip({"theme"}),
   closeTheme    |-> Shut({"theme"})]

\* The theme's card disables apply while it is being installed, its dialog
\* disables neither.
ThemeCommunityControls ==
  [openTheme |-> Off({"theme"}), closeTheme |-> In({"theme"}), handleInstall |-> In({"theme"}),
   handleApply |-> Free]

ThemeCommunityPage == PageOf(
  [reads |-> {"installed"}, busy |-> {"installing"}, mount |-> <<"fetchInstalledThemes">>,
   handlers |-> ThemeCommunityHandlers, controls |-> ThemeCommunityControls])

-------------------------------------------------------------------------------
(* PluginMarketplacePage.js: three tabs that share nothing.                    *)

CatalogueHandlers ==
  [fetchCatalogue |-> Do([busy |-> {"loadingCatalogue"}, does |-> <<Get({"items"})>>]),
   fetchCatalogueCategories |-> Do([does |-> <<Get({"categories"})>>])]
CatalogueTab == PageOf(
  [reads |-> {"items", "categories"}, busy |-> {"loadingCatalogue"},
   mount |-> <<"fetchCatalogue", "fetchCatalogueCategories">>,
   selects |-> [categoryOrQuery |-> <<"fetchCatalogue">>], handlers |-> CatalogueHandlers])

KodiHandlers ==
  [fetchKodiCategories |-> Do([does |-> <<Get({"categories"})>>]),
   fetchPopularAddons  |-> Do([busy |-> {"loadingKodi"}, does |-> <<Get({"popular"})>>]),
   fetchKodiAddons     |-> Do([busy |-> {"loadingKodi"}, does |-> <<Get({"addons"})>>]),
   refreshKodiRepo     |-> Do([busy |-> {"loadingKodi"},
                               does |-> <<Put({"categories", "popular", "addons"}),
                                          Soft(Get({"categories"})), Soft(Get({"popular"}))>>])]
KodiTab == PageOf(
  [reads |-> {"categories", "popular", "addons"}, busy |-> {"loadingKodi"},
   mount |-> <<"fetchKodiCategories", "fetchPopularAddons">>,
   selects |-> [categoryOrQuery |-> <<"fetchKodiAddons">>],
   handlers |-> KodiHandlers, controls |-> [refreshKodiRepo |-> Off({"loadingKodi"})]])

InstalledHandlers ==
  [fetchInstalledPlugins |-> Do([busy |-> {"loadingPlugins"}, does |-> <<Get({"plugins"})>>,
                                 okRaises |-> {"rows"}]),
   handleImportFile   |-> Do([busy |-> {"importing"}, does |-> <<Put({"plugins"})>>,
                              okLowers |-> {"showImportModal"}, then |-> <<"fetchInstalledPlugins">>]),
   handleImportUrl    |-> Do([busy |-> {"importing"}, does |-> <<Put({"plugins"})>>,
                              okLowers |-> {"showImportModal"}, then |-> <<"fetchInstalledPlugins">>]),
   handleTogglePlugin |-> Do([does |-> <<Put({"plugins"})>>, then |-> <<"fetchInstalledPlugins">>]),
   openImport  |-> Flip({"showImportModal"}),
   closeImport |-> Shut({"showImportModal"})]
InstalledControls ==
  [openImport |-> Off({"showImportModal"}), closeImport |-> In({"showImportModal"}),
   handleImportFile |-> InOff({"showImportModal"}, {"importing"}),
   handleImportUrl |-> InOff({"showImportModal"}, {"importing"}),
   handleTogglePlugin |-> InOff({"rows"}, {"loadingPlugins"})]
InstalledTab == PageOf(
  [reads |-> {"plugins"}, busy |-> {"loadingPlugins", "importing"}, mount |-> <<"fetchInstalledPlugins">>,
   handlers |-> InstalledHandlers, controls |-> InstalledControls])

===============================================================================
