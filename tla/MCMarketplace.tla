---------------------------- MODULE MCMarketplace -----------------------------
EXTENDS Marketplace

CONSTANTS o1, o2, cli, s1

\* The second commit is signed, the first is not.
LaterSigned == {<<s1, 2>>}

\* The server and the command line; two requests to the server; one whose steps
\* fail; the host and somebody who edits bundles, twice; requests about sources
\* and trust; a command line, with a bundled plugin of the same id.  Where an
\* update or a failure takes part, the plugin is also enabled in the dashboard.
MarketCasts == {
    {o1, cli, "sync", "install", "uninstall"},
    {o1, o2, "sync", "install", "update", "dashboard"},
    {o1, "sync", "install", "update", "uninstall", "production", "faults",
     "dashboard"},
    {o1, "host", "editor", "install", "update", "uninstall"},
    {o1, "host", "editor", "install", "update", "production"},
    {o1, "upsert", "delete", "sync", "search", "install", "trust", "faults",
     "dashboard"},
    {cli, "sync", "search", "trust", "bundled", "install"}}
===============================================================================
