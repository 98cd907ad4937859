--------------------------- MODULE MCDownloader ---------------------------
EXTENDS DownloaderSpec

MCFirstBlock == 1
MCMaxBlock == 4
MCEvCap == 2
MCMaxInvalidations == 1
=============================================================================
