------------------------------ MODULE MediaPages ------------------------------
(* The pages of the web client that show media (src/src/web/src/pages).        *)
EXTENDS PageKit

-------------------------------------------------------------------------------
(* LibraryPage.js. The flags of a library's row stand for its entries in the   *)
(* scanning and refreshingMetadata maps.                                       *)

LibraryHandlers ==
  [fetchData     |-> Do([does |-> <<Get({"libraries", "recent"})>>, okRaises |-> {"rows"},
                         okLowers |-> {"loading"}, failLowers |-> {"loading"}]),
   fetchMedia    |-> Do([does |-> <<Get({"media"})>>]),
   fetchTvSeries |-> Do([does |-> <<Get({"tvSeries"})>>]),
   \* the library is added and fetched; only then is it scanned
   addLibrary    |-> Do([does |-> <<Put({"libraries"})>>, okLowers |-> {"showAddLibrary"},
                         then |-> <<"fetchAdded">>]),
   fetchAdded    |-> Do([does |-> <<Get({"libraries", "recent"})>>, then |-> <<"scanAdded">>,
                         rescue |-> <<"scanAdded">>]),
   scanAdded     |-> Do([busy |-> {"scanning"}, does |-> <<Put({"media", "tvSeries", "recent"})>>,
                         then |-> <<"fetchMedia">>]),
   removeLibrary |-> Do([does |-> <<Put({"libraries", "media", "tvSeries", "recent"})>>,
                         then |-> <<"fetchData">>]),
   scanLibrary   |-> Do([busy |-> {"scanning"}, does |-> <<Put({"media", "tvSeries", "recent"})>>,
                         then |-> <<"fetchData", "fetchMedia", "fetchTvSeries">>]),
   refreshMetadata |-> Do([busy |-> {"refreshing"}, does |-> <<Put({"media", "tvSeries"})>>,
                           then |-> <<"fetchMedia", "fetchTvSeries">>]),
   search        |-> Do([does |-> <<Get({"media"})>>]),
   openAdd       |-> Flip({"showAddLibrary"}),
   closeAdd      |-> Shut({"showAddLibrary"})]

LibraryControls ==
  [openAdd |-> Off({"showAddLibrary"}), closeAdd |-> In({"showAddLibrary"}),
   addLibrary |-> In({"showAddLibrary"}), removeLibrary |-> In({"rows"}),
   scanLibrary |-> InOff({"rows"}, {"scanning", "refreshing"}),
   refreshMetadata |-> InOff({"rows"}, {"scanning", "refreshing"})]

LibraryPage == PageOf(
  [reads |-> {"libraries", "recent", "media", "tvSeries"},
   busy |-> {"loading", "scanning", "refreshing"}, at |-> {"loading"},
   mount |-> <<"fetchData", "fetchMedia", "fetchTvSeries">>,
   selects |-> [library |-> <<"fetchMedia", "fetchTvSeries">>, query |-> <<"search">>],
   handlers |-> LibraryHandlers, controls |-> LibraryControls])

-------------------------------------------------------------------------------
(* MoviesPage.js: the library tab and the discover tab. What loading says is   *)
(* read in the discover tab only, whose effect raises it.                      *)

MoviesLibrary ==
  [fetchLibraryData |-> Do([does |-> <<Get({"libraries", "localMovies"})>>, okRaises |-> {"rows"},
                            okLowers |-> {"libraryLoading"}, failLowers |-> {"libraryLoading"}]),
   handleAddLibrary |-> Do([does |-> <<Put({"libraries"})>>, okLowers |-> {"showAddLibrary"},
                            then |-> <<"fetchAdded">>]),
   fetchAdded |-> Do([does |-> <<Get({"libraries", "localMovies"})>>,
                      then |-> <<"handleScanLibrary">>, rescue |-> <<"handleScanLibrary">>]),
   handleScanLibrary |-> Do([busy |-> {"scanning"}, does |-> <<Put({"localMovies"})>>,
                             then |-> <<"fetchLibraryData">>]),
   toggleAddLibrary |-> Flip({"showAddLibrary"})]

MoviesDiscover ==
  [fetchGenres    |-> Do([does |-> <<Get({"genres"})>>]),
   fetchWatchlist |-> Do([does |-> <<Get({"watchlist"})>>]),
   fetchMovies    |-> Do([busy |-> {"loading"}, does |-> <<Get({"movies"})>>, okRaises |-> {"cards"}]),
   handleAddToWatchlist |-> Do([does |-> <<Put({"watchlist"})>>, local |-> {"watchlist"}]),
   showDiscover   |-> Do([raises |-> {"discover"}, busy |-> {"loading"}, does |-> <<Get({"movies"})>>,
                          okRaises |-> {"cards"}]),
   showLibrary    |-> Shut({"discover", "cards"})]

MoviesLibraryControls ==
  [toggleAddLibrary |-> Off({"discover", "showAddLibrary"}), showDiscover |-> Off({"discover"}),
   handleAddLibrary |-> InOff({"showAddLibrary"}, {"discover"}),
   handleScanLibrary |-> InOff({"rows"}, {"discover", "scanning"})]

MoviesDiscoverControls ==
  [showLibrary |-> In({"discover"}), handleAddToWatchlist |-> In({"discover", "cards"}),
   genreOrSort |-> In({"discover"}), nextPage |-> InOff({"discover"}, {"loading"})]

MoviesPage == PageOf(
  [reads |-> {"libraries", "localMovies", "genres", "watchlist", "movies"},
   busy |-> {"libraryLoading", "scanning", "loading"}, at |-> {"libraryLoading"},
   mount |-> <<"fetchLibraryData", "fetchGenres", "fetchWatchlist">>,
   selects |-> [genreOrSort |-> <<"fetchMovies">>, nextPage |-> <<"fetchMovies">>],
   handlers |-> MoviesLibrary @@ MoviesDiscover,
   controls |-> MoviesLibraryControls @@ MoviesDiscoverControls])

-------------------------------------------------------------------------------
(* TVShowsPage.js: as the movies, with the series grouped by the server.       *)

TVShowsLibrary ==
  [fetchLibraryData |-> Do([does |-> <<Get({"libraries", "episodes"})>>, okRaises |-> {"rows"},
                            okLowers |-> {"libraryLoading"}, failLowers |-> {"libraryLoading"}]),
   handleAddLibrary |-> Do([does |-> <<Put({"libraries"})>>, okLowers |-> {"showAddLibrary"},
                            then |-> <<"fetchAdded">>]),
   fetchAdded |-> Do([does |-> <<Get({"libraries", "episodes"})>>,
                      then |-> <<"handleScanLibrary">>, rescue |-> <<"handleScanLibrary">>]),
   handleScanLibrary |-> Do([busy |-> {"scanning"}, does |-> <<Put({"episodes"})>>,
                             then |-> <<"fetchLibraryData">>]),
   toggleAddLibrary |-> Flip({"showAddLibrary"})]

TVShowsDiscover ==
  [fetchGenres    |-> Do([does |-> <<Get({"genres"})>>]),
   fetchWatchlist |-> Do([does |-> <<Get({"watchlist"})>>]),
   fetchShows     |-> Do([busy |-> {"loading"}, does |-> <<Get({"shows"})>>, okRaises |-> {"cards"}]),
   handleAddToWatchlist |-> Do([does |-> <<Put({"watchlist"})>>, local |-> {"watchlist"}]),
   showDiscover   |-> Do([raises |-> {"discover"}, busy |-> {"loading"}, does |-> <<Get({"shows"})>>,
                          okRaises |-> {"cards"}]),
   showLibrary    |-> Shut({"discover", "cards"})]

TVShowsLibraryControls ==
  [toggleAddLibrary |-> Off({"discover", "showAddLibrary"}), showDiscover |-> Off({"discover"}),
   handleAddLibrary |-> InOff({"showAddLibrary"}, {"discover"}),
   handleScanLibrary |-> InOff({"rows"}, {"discover", "scanning"})]

TVShowsDiscoverControls ==
  [showLibrary |-> In({"discover"}), handleAddToWatchlist |-> In({"discover", "cards"}),
   genreOrSort |-> In({"discover"}), nextPage |-> InOff({"discover"}, {"loading"})]

TVShowsPage == PageOf(
  [reads |-> {"libraries", "episodes", "genres", "watchlist", "shows"},
   busy |-> {"libraryLoading", "scanning", "loading"}, at |-> {"libraryLoading"},
   mount |-> <<"fetchLibraryData", "fetchGenres", "fetchWatchlist">>,
   selects |-> [genreOrSort |-> <<"fetchShows">>, nextPage |-> <<"fetchShows">>],
   handlers |-> TVShowsLibrary @@ TVShowsDiscover,
   controls |-> TVShowsLibraryControls @@ TVShowsDiscoverControls])

-------------------------------------------------------------------------------
(* AnimePage.js: as the movies, without a watchlist; a genre, a sort order and *)
(* a submitted query fetch the same list.                                      *)

AnimeHandlers ==
  [fetchLibraryData |-> Do([does |-> <<Get({"libraries", "localAnime"})>>, okRaises |-> {"rows"},
                            okLowers |-> {"libraryLoading"}, failLowers |-> {"libraryLoading"}]),
   handleAddLibrary |-> Do([does |-> <<Put({"libraries"})>>, okLowers |-> {"showAddLibrary"},
                            then |-> <<"fetchAdded">>]),
   fetchAdded |-> Do([does |-> <<Get({"libraries", "localAnime"})>>,
                      then |-> <<"handleScanLibrary">>, rescue |-> <<"handleScanLibrary">>]),
   handleScanLibrary |-> Do([busy |-> {"scanning"}, does |-> <<Put({"localAnime"})>>,
                             then |-> <<"fetchLibraryData">>]),
   toggleAddLibrary |-> Flip({"showAddLibrary"}),
   fetchAnime   |-> Do([busy |-> {"loading"}, does |-> <<Get({"anime"})>>]),
   searchAnime  |-> Do([busy |-> {"loading"}, does |-> <<Get({"anime"})>>]),
   showDiscover |-> Do([raises |-> {"discover"}, busy |-> {"loading"}, does |-> <<Get({"anime"})>>]),
   showLibrary  |-> Shut({"discover"})]

AnimeLibraryControls ==
  [toggleAddLibrary |-> Off({"discover", "showAddLibrary"}), showDiscover |-> Off({"discover"}),
   handleAddLibrary |-> InOff({"showAddLibrary"}, {"discover"}),
   handleScanLibrary |-> InOff({"rows"}, {"discover", "scanning"})]

AnimeDiscoverControls ==
  [showLibrary |-> In({"discover"}), genreOrSort |-> In({"discover"}), query |-> In({"discover"})]

AnimePage == PageOf(
  [reads |-> {"libraries", "localAnime", "anime"},
   busy |-> {"libraryLoading", "scanning", "loading"}, at |-> {"libraryLoading"},
   mount |-> <<"fetchLibraryData">>,
   selects |-> [genreOrSort |-> <<"fetchAnime">>, query |-> <<"searchAnime">>],
   handlers |-> AnimeHandlers, controls |-> AnimeLibraryControls @@ AnimeDiscoverControls])

-------------------------------------------------------------------------------
(* LiveTVPage.js. The channels depend on the group, the favourites filter and  *)
(* the query; fetchAll depends on fetchChannels, so both effects run when one  *)
(* of these changes. The guide is a component of its own that fetches the      *)
(* programmes of the channels it is given, one after the other.                *)

GuideHandlers ==
  [fetchEPG |-> Do([busy |-> {"loading"}, does |-> <<Soft(Call), Soft(Get({"epg"}))>>])]

EPGGuideView == PageOf(
  [reads |-> {"epg"}, busy |-> {"loading"}, mount |-> <<"fetchEPG">>,
   selects |-> [channels |-> <<"fetchEPG">>], handlers |-> GuideHandlers])

LiveTVLoads ==
  [fetchChannels |-> Do([does |-> <<Get({"channels"})>>]),
   fetchAll |-> Do([busy |-> {"loading"}, does |-> <<Soft(Get({"stats", "sources", "channels", "groups"}))>>,
                    okRaises |-> {"rows"}])]

LiveTVTasks ==
  [handleAddSource |-> Do([busy |-> {"addingSource"}, okLowers |-> {"showAddSource"},
                           does |-> <<Put({"stats", "sources", "channels", "groups"})>>,
                           then |-> <<"fetchAll">>]),
   handleRefreshSource |-> Do([busy |-> {"refreshingSource"},
                               does |-> <<Put({"stats", "sources", "channels", "groups"})>>,
                               then |-> <<"fetchAll">>]),
   handleDeleteSource |-> Do([does |-> <<Put({"stats", "sources", "channels", "groups"})>>,
                              then |-> <<"fetchAll">>]),
   handleToggleFavorite |-> Do([does |-> <<Put({"channels", "stats"})>>, then |-> <<"fetchChannels">>]),
   openAddSource |-> Flip({"showAddSource"}), closeAddSource |-> Shut({"showAddSource"})]

\* The header, the filters and the channel cards.
LiveTVChannelControls ==
  [openAddSource |-> Off({"showAddSource"}), filter |-> Off({"showAddSource"}),
   handleToggleFavorite |-> InOff({"rows"}, {"loading"})]

\* The sources and the form. Another source's row has no flag.
LiveTVSourceControls ==
  [handleRefreshSource |-> In({"rows"}), handleDeleteSource |-> In({"rows"}),
   handleAddSource |-> InOff({"showAddSource"}, {"addingSource"}),
   closeAddSource |-> In({"showAddSource"})]

LiveTVPage == PageOf(
  [reads |-> {"stats", "sources", "channels", "groups"},
   busy |-> {"loading", "addingSource", "refreshingSource"},
   mount |-> <<"fetchAll", "fetchChannels">>, selects |-> [filter |-> <<"fetchAll", "fetchChannels">>],
   handlers |-> LiveTVLoads @@ LiveTVTasks,
   controls |-> LiveTVChannelControls @@ LiveTVSourceControls])

-------------------------------------------------------------------------------
(* MediaDetails.js: the details of one title; its route is part of the         *)
(* selection, and so is the season.                                            *)

DetailsHandlers ==
  [fetchMediaDetails |-> Do([busy |-> {"loading"}, does |-> <<Get({"media"})>>,
                             then |-> <<"fetchSeason">>]),
   fetchSeason    |-> Do([does |-> <<Get({"season"})>>]),
   checkWatchlist |-> Do([does |-> <<Get({"isInWatchlist"})>>]),
   handleWatchlistToggle |-> Do([does |-> <<Put({"isInWatchlist"})>>, local |-> {"isInWatchlist"}]),
   handleDownload |-> Do([does |-> <<Call>>])]

DetailsControls == [handleWatchlistToggle |-> Free, handleDownload |-> Free, season |-> Free]

MediaDetails == PageOf(
  [reads |-> {"media", "season", "isInWatchlist"}, busy |-> {"loading"}, hides |-> {"loading"},
   mount |-> <<"fetchMediaDetails", "checkWatchlist">>,
   selects |-> [route |-> <<"fetchMediaDetails", "checkWatchlist">>, season |-> <<"fetchSeason">>],
   handlers |-> DetailsHandlers, controls |-> DetailsControls])

-------------------------------------------------------------------------------
(* AudiobooksPage.js and MusicPage.js: a library tab each; what they play is   *)
(* in AudioPlayer.                                                             *)

AudiobooksHandlers ==
  [fetchData |-> Do([does |-> <<Get({"libraries", "audiobooks"})>>, okRaises |-> {"rows"},
                     okLowers |-> {"loading"}, failLowers |-> {"loading"}]),
   handleAddLibrary |-> Do([does |-> <<Put({"libraries"})>>, okLowers |-> {"showAddLibrary"},
                            then |-> <<"fetchAdded">>]),
   fetchAdded |-> Do([does |-> <<Get({"libraries", "audiobooks"})>>,
                      then |-> <<"handleScanLibrary">>, rescue |-> <<"handleScanLibrary">>]),
   handleScanLibrary |-> Do([busy |-> {"scanning"}, does |-> <<Put({"audiobooks"})>>,
                             then |-> <<"fetchData">>]),
   openAdd |-> Flip({"showAddLibrary"}), closeAdd |-> Shut({"showAddLibrary"})]

AudiobooksControls ==
  [openAdd |-> Off({"showAddLibrary"}), closeAdd |-> In({"showAddLibrary"}),
   handleAddLibrary |-> In({"showAddLibrary"}),
   handleScanLibrary |-> InOff({"rows"}, {"scanning"})]

AudiobooksPage == PageOf(
  [reads |-> {"libraries", "audiobooks"}, busy |-> {"loading", "scanning"}, at |-> {"loading"},
   mount |-> <<"fetchData">>, handlers |-> AudiobooksHandlers, controls |-> AudiobooksControls])

MusicHandlers ==
  [fetchData |-> Do([does |-> <<Get({"libraries", "tracks"})>>, okRaises |-> {"rows"},
                     okLowers |-> {"loading"}, failLowers |-> {"loading"}]),
   handleAddLibrary |-> Do([does |-> <<Put({"libraries"})>>, okLowers |-> {"showAddLibrary"},
                            then |-> <<"fetchAdded">>]),
   fetchAdded |-> Do([does |-> <<Get({"libraries", "tracks"})>>,
                      then |-> <<"handleScanLibrary">>, rescue |-> <<"handleScanLibrary">>]),
   handleScanLibrary |-> Do([busy |-> {"scanning"}, does |-> <<Put({"tracks"})>>,
                             then |-> <<"fetchData">>]),
   openAdd |-> Flip({"showAddLibrary"}), closeAdd |-> Shut({"showAddLibrary"})]

MusicControls ==
  [openAdd |-> Off({"showAddLibrary"}), closeAdd |-> In({"showAddLibrary"}),
   handleAddLibrary |-> In({"showAddLibrary"}),
   handleScanLibrary |-> InOff({"rows"}, {"scanning"})]

MusicPage == PageOf(
  [reads |-> {"libraries", "tracks"}, busy |-> {"loading", "scanning"}, at |-> {"loading"},
   mount |-> <<"fetchData">>, handlers |-> MusicHandlers, controls |-> MusicControls])

-------------------------------------------------------------------------------
(* Dashboard.js: one load for all rows, then local changes only.               *)

DashboardHandlers ==
  [fetchData |-> Do([does |-> <<Get({"rows", "watchlist", "continueWatching"})>>,
                     okRaises |-> {"cards"}, okLowers |-> {"loading"}, failLowers |-> {"loading"}]),
   handleAddToWatchlist |-> Do([does |-> <<Put({"watchlist"})>>, local |-> {"watchlist"}]),
   handleRemoveFromContinueWatching |-> Do([does |-> <<Put({"continueWatching"})>>,
                                            local |-> {"continueWatching"}])]

DashboardControls ==
  [handleAddToWatchlist |-> In({"cards"}), handleRemoveFromContinueWatching |-> In({"cards"})]

Dashboard == PageOf(
  [reads |-> {"rows", "watchlist", "continueWatching"}, busy |-> {"loading"}, at |-> {"loading"},
   mount |-> <<"fetchData">>, selects |-> [user |-> <<"fetchData">>],
   handlers |-> DashboardHandlers, controls |-> DashboardControls])

-------------------------------------------------------------------------------
(* SearchPage.js: submitting searches and changes the address, whose effect    *)
(* searches once more.                                                         *)

SearchHandlers ==
  [fetchWatchlist |-> Do([does |-> <<Get({"watchlist"})>>]),
   handleSearch   |-> Do([busy |-> {"loading"}, does |-> <<Get({"results"})>>, okRaises |-> {"cards"}]),
   handleAddToWatchlist |-> Do([does |-> <<Put({"watchlist"})>>, local |-> {"watchlist"}]),
   clear |-> Shut({"cards"})]

SearchControls == [clear |-> In({"cards"}), handleAddToWatchlist |-> InOff({"cards"}, {"loading"})]

SearchPage == PageOf(
  [reads |-> {"results", "watchlist"}, busy |-> {"loading"}, mount |-> <<"fetchWatchlist">>,
   selects |-> [submit |-> <<"handleSearch", "handleSearch">>, address |-> <<"handleSearch">>],
   handlers |-> SearchHandlers, controls |-> SearchControls])

-------------------------------------------------------------------------------
(* DiscoverPage.js: whatever changes, content, genres and watchlist are all    *)
(* fetched again.                                                              *)

DiscoverHandlers ==
  [fetchContent   |-> Do([busy |-> {"loading"}, does |-> <<Get({"content"})>>]),
   fetchGenres    |-> Do([does |-> <<Get({"genres"})>>]),
   fetchWatchlist |-> Do([does |-> <<Get({"watchlist"})>>]),
   handleAddToWatchlist |-> Do([does |-> <<Put({"watchlist"})>>, local |-> {"watchlist"}])]

DiscoverControls == [handleAddToWatchlist |-> Off({"loading"}), choose |-> Free, turnPage |-> Free]

DiscoverPage == PageOf(
  [reads |-> {"content", "genres", "watchlist"}, busy |-> {"loading"},
   mount |-> <<"fetchContent", "fetchGenres", "fetchWatchlist">>,
   selects |-> [choose |-> <<"fetchContent", "fetchGenres", "fetchWatchlist">>,
                turnPage |-> <<"fetchContent", "fetchGenres", "fetchWatchlist">>],
   handlers |-> DiscoverHandlers, controls |-> DiscoverControls])

-------------------------------------------------------------------------------
(* StreamingPage.js: the search button is disabled while a search runs.        *)

StreamingHandlers ==
  [fetchServices |-> Do([does |-> <<Get({"services"})>>]),
   handleSearch  |-> Do([busy |-> {"loading"}, does |-> <<Get({"searchResults"})>>])]

StreamingControls == [submit |-> Off({"loading"})]

StreamingPage == PageOf(
  [reads |-> {"services", "searchResults"}, busy |-> {"loading"}, mount |-> <<"fetchServices">>,
   selects |-> [submit |-> <<"handleSearch">>],
   handlers |-> StreamingHandlers, controls |-> StreamingControls])

===============================================================================
