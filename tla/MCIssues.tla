---- MODULE MCIssues ----
EXTENDS Issues
====
