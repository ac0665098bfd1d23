------------------------------- MODULE MCApi -------------------------------
(* A small database and its clients for Api.                               *)
EXTENDS Api

\* A CVE in two packages, so that two rows tie; the same CVE with another
\* severity; and another one, whose scan waits for no row of the others.
SmallReports ==
    {(<<1, "p">> :> 1) @@ (<<1, "q">> :> 1), <<1, "p">> :> 4, <<2, "p">> :> 4}

Url(endpoint, subject, severity, limit, offset) ==
    [endpoint |-> endpoint, subject |-> subject, severity |-> severity,
     limit |-> limit, offset |-> offset]

\* Every endpoint; a page that ends early, one that starts later and asks for
\* more than there may be; a severity that is not filterable, and an image
\* nobody has heard of.
SmallUrls ==
    {Url("list_images", NULL, NULL, NULL, 0),
     Url("image_cves", 1, NULL, 1, 0), Url("image_cves", 1, 0, NULL, 0),
     Url("image_cves", 9, NULL, NULL, 0),
     Url("list_cves", NULL, 4, NULL, 0), Url("cve_images", 1, NULL, 9, 1)}
=============================================================================
