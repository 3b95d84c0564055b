---------------------------- MODULE MCMigration ----------------------------
EXTENDS Migration

CONSTANTS d1, d2, d3

MCDomains == {d1, d2}

\* three domains: an egress can then feed ingresses in two other domains
MCDomains3 == {d1, d2, d3}

\* no property names a domain, so domains are interchangeable
DomainSymmetry3 == Permutations(MCDomains3)

\* two query names, one contained in the other ("a" in "ab")
MCQueryNames == {<<"a">>, <<"a", "b">>}

\* a single query name, for the runs that are not about query groups
MCOneQueryName == {<<"a">>}

\* migrations in the global universe, or in the universe of user 1
MCContextIds == {<<>>, <<1>>}

=============================================================================
