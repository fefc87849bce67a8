\* Three models over two providers, every catalog and every list of up to two
\* fallbacks (one may repeat the primary, another fallback, or be unlisted), two
\* retries, two streamed events: every mix of refused, unregistered, failing and
\* serving routes, and chains that name one provider twice.
CONSTANTS
    Models = {m1, m2, m3}
    Providers = {"openai", "gemini"}
    Statuses = {200, 302, 400, 429, 503}
    NoProvider = NoProvider
    MaxRetries = 2
    MaxFallbacks = 2
    MaxEvents = 2
SPECIFICATION FairSpec
INVARIANTS
    TypeOK
    CallsAreBounded
    AnsweredOnce
PROPERTIES
    RouteIsSticky
    ImplementsFailover
    CallEnds
