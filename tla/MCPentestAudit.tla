---------------------------- MODULE MCPentestAudit ----------------------------
(***************************************************************************)
(* An instance of PentestAudit for TLC.                                    *)
(***************************************************************************)
EXTENDS PentestAudit

\* Sites that show the worst, the best and little, and a network of two hosts.
Bad   == [shows |-> {"missing header", "telling header", "ftp", "redis", "TLS 1.2", "TLS 1.1",
                     "transfer", "unsigned", "DMARC below", "wall if attacked",
                     "any origin with credentials", "reflected origin", "null origin",
                     "insecure cookie", "script cookie", "internal address", "secret path",
                     "error text", "TRACE", "listing", "debug page", "over 10 ports",
                     "over 20 ports"},
          serves |-> {"https", "http"}, many |-> 12, header |-> "high"]
Good  == [shows |-> {"TLS 1.3", "TLS 1.2", "SPF", "DMARC", "wall"},
          serves |-> {"https"}, many |-> 0, header |-> "low"]
Plain == [shows |-> {"ftp", "missing header", "open path"},
          serves |-> {"http"}, many |-> 1, header |-> "low"]
FourSites ==
  {[type |-> "domain", hosts |-> <<h>>] : h \in {Bad, Good, Plain}}
    \cup {[type |-> "cidr", hosts |-> <<Good, Bad>>]}

AuditOf(modules) ==
  [modules |-> modules, schemes |-> <<"https", "http">>, intensity |-> "light", ports |-> {},
   analysis |-> FALSE]
EightAudits ==
  {AuditOf({"headers", "tls"}), AuditOf({"dns", "ports"}), AuditOf({"cors"}), AuditOf({"info"}),
   AuditOf({"misconfig", "tech"}),
   [AuditOf({"waf", "ports"}) EXCEPT !.intensity = "standard"],
   [AuditOf({"cookies"}) EXCEPT !.analysis = TRUE],
   [AuditOf({"headers", "cors"}) EXCEPT !.schemes = <<>>]}

=============================================================================
