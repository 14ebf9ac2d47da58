--------------------------- MODULE MCTemplateSync ---------------------------
\* Model-checking instance of TemplateSync.
EXTENDS TemplateSync, TLC

CONSTANTS n1, n2

\* The template table as the monitor finds it: one template, then another one
\* in its place.
Replaced == << <<n1>>, <<n2>> >>
Grown    == << <<n1>>, <<n1, n2>> >>
=============================================================================
