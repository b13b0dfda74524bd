---------------------------- MODULE MCWebScraper ----------------------------
(***************************************************************************)
(* Instances of WebScraper for TLC.                                        *)
(***************************************************************************)
EXTENDS WebScraper

\* The first scraper respects robots.txt, the one configured later does not.
FirstRespects == [k \in Scrapers |-> k = 1]
=============================================================================
