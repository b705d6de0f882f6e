-------------------------- MODULE MCServiceControl --------------------------
EXTENDS ServiceControl

\* Two sessions of the logging page may overlap; the others are called one
\* at a time.
OneAtATime == Service \ {"rsyslogd"}
=============================================================================
