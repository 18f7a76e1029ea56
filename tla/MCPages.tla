-------------------------------- MODULE MCPages --------------------------------
(* Every page of the web client, each an initial state of its own.             *)
EXTENDS PageClaims, MediaPages, ToolPages, GadgetPages, AdminPages, ServicePages, SettingsPages

AllPages ==
  [LibraryPage |-> LibraryPage, MoviesPage |-> MoviesPage,
   TVShowsPage |-> TVShowsPage, AnimePage |-> AnimePage,
   EPGGuideView |-> EPGGuideView, LiveTVPage |-> LiveTVPage,
   MediaDetails |-> MediaDetails, AudiobooksPage |-> AudiobooksPage,
   MusicPage |-> MusicPage, Dashboard |-> Dashboard,
   SearchPage |-> SearchPage, DiscoverPage |-> DiscoverPage,
   StreamingPage |-> StreamingPage, DownloadsPage |-> DownloadsPage,
   StrudelPage |-> StrudelPage, VpnPage |-> VpnPage,
   AuditPanel |-> AuditPanel, IpRulesPanel |-> IpRulesPanel,
   ApiKeysPanel |-> ApiKeysPanel, SessionsPanel |-> SessionsPanel,
   MenuPage |-> MenuPage, ParfaitPage |-> ParfaitPage,
   PretzelPage |-> PretzelPage, SproutPage |-> SproutPage,
   GlazePage |-> GlazePage, FonduePage |-> FonduePage,
   RouxPage |-> RouxPage, SourdoughPage |-> SourdoughPage,
   SaffronPage |-> SaffronPage, ChurroPage |-> ChurroPage,
   LobsterPage |-> LobsterPage, BiscottiPage |-> BiscottiPage,
   ChowderPage |-> ChowderPage, IndexerSearchPage |-> IndexerSearchPage,
   LibraryManagerPage |-> LibraryManagerPage,
   MediaBrowserPage |-> MediaBrowserPage,
   LogViewerPage |-> LogViewerPage, SystemPage |-> SystemPage,
   WatchlistPage |-> WatchlistPage,
   WatchHistoryPage |-> WatchHistoryPage,
   NotificationsPage |-> NotificationsPage,
   RequestsPage |-> RequestsPage, ProcessingPage |-> ProcessingPage,
   AnalyticsPage |-> AnalyticsPage,
   ParentalControlsPage |-> ParentalControlsPage,
   PhotosPage |-> PhotosPage, PodcastsPage |-> PodcastsPage,
   RadioPage |-> RadioPage, UsenetPage |-> UsenetPage,
   WeatherPage |-> WeatherPage, WebVideoPage |-> WebVideoPage,
   MarshmallowPage |-> MarshmallowPage, PopsiclePage |-> PopsiclePage,
   PreservesPage |-> PreservesPage, SagePage |-> SagePage,
   TerrinePage |-> TerrinePage, TreaclePage |-> TreaclePage,
   ChangelogPage |-> ChangelogPage,
   ThemeCommunityPage |-> ThemeCommunityPage,
   CatalogueTab |-> CatalogueTab, KodiTab |-> KodiTab,
   InstalledTab |-> InstalledTab, PlaybackSettings |-> PlaybackSettings,
   HistoryTab |-> HistoryTab, GeneralSettings |-> GeneralSettings,
   PathsTab |-> PathsTab, UsersTab |-> UsersTab,
   LibrariesTab |-> LibrariesTab,
   QualityProfilesSettings |-> QualityProfilesSettings,
   PluginsSettings |-> PluginsSettings,
   CrumbsSettings |-> CrumbsSettings, ZestSettings |-> ZestSettings,
   MaintenanceSettings |-> MaintenanceSettings,
   UpdateSettings |-> UpdateSettings,
   UpdateSettingsPending |-> UpdateSettingsPending,
   EngineSettings |-> EngineSettings,
   QbitSettings |-> QbitSettings, IndexerSettings |-> IndexerSettings,
   SubtitleSettings |-> SubtitleSettings, IPTVSettings |-> IPTVSettings,
   StreamingSettings |-> StreamingSettings,
   GelatinSettings |-> GelatinSettings,
   FFmpegSettings |-> FFmpegSettings,
   ThemeForgeSettings |-> ThemeForgeSettings,
   MediaHealthSettings |-> MediaHealthSettings]

MCCatalog == LET All == AllPages IN All

\* Handlers that change these and do not fetch them again, and early changes
\* that a failure does not take back.
MCLagging ==
  {<<"ChowderPage", "stats">>, <<"EngineSettings", "mode">>,
   <<"FonduePage", "queue">>, <<"FonduePage", "total">>,
   <<"GlazePage", "history">>, <<"IndexerSettings", "indexers">>,
   <<"KodiTab", "addons">>, <<"LibraryPage", "media">>,
   <<"LibraryPage", "recent">>, <<"LibraryPage", "tvSeries">>,
   <<"LiveTVPage", "stats">>, <<"NotificationsPage", "history">>,
   <<"ParfaitPage", "discover">>, <<"ParfaitPage", "requests">>,
   <<"ParfaitPage", "stats">>, <<"PhotosPage", "libraries">>,
   <<"PhotosPage", "photos">>, <<"QualityProfilesSettings", "profiles">>,
   <<"RouxPage", "collections">>, <<"RouxPage", "items">>,
   <<"SaffronPage", "history">>, <<"SaffronPage", "tasks">>,
   <<"ThemeCommunityPage", "installed">>, <<"WebVideoPage", "history">>}

MCLocks ==
  {<<"LibraryPage", "refreshing">>, <<"LiveTVPage", "addingSource">>,
   <<"DownloadsPage", "addingMagnet">>, <<"VpnPage", "toggling">>,
   <<"MenuPage", "requesting">>, <<"MenuPage", "requestingOther">>,
   <<"PretzelPage", "scanning">>,
   <<"LobsterPage", "pairing">>, <<"IndexerSearchPage", "grabbing">>,
   <<"IndexerSearchPage", "grabbingOther">>, <<"SagePage", "requestingOther">>,
   <<"MarshmallowPage", "syncing">>, <<"SagePage", "requesting">>,
   <<"InstalledTab", "importing">>, <<"PlaybackSettings", "saving">>,
   <<"PlaybackSettings", "analyzing">>, <<"HistoryTab", "clearing">>,
   <<"GeneralSettings", "savingTabs">>, <<"PathsTab", "saving">>,
   <<"QualityProfilesSettings", "saving">>, <<"PluginsSettings", "importing">>,
   <<"CrumbsSettings", "saving">>, <<"MaintenanceSettings", "vacuum">>,
   <<"MaintenanceSettings", "backup">>, <<"MaintenanceSettings", "reset">>,
   <<"MaintenanceSettings", "clearLogs">>,
   <<"UpdateSettings", "checking">>, <<"EngineSettings", "testingEngine">>,
   <<"EngineSettings", "savingEngineSettings">>,
   <<"QbitSettings", "savingQbit">>, <<"IndexerSettings", "checking">>,
   <<"SubtitleSettings", "saving">>, <<"IPTVSettings", "saving">>,
   <<"GelatinSettings", "creatingTunnel">>, <<"FFmpegSettings", "checking">>,
   <<"ThemeForgeSettings", "savingTheme">>}

MCCareful == {"GlazePage", "UpdateSettings", "UpdateSettingsPending"}
================================================================================
