\* funding_script for every encoding boundary of the term.
CONSTANTS
    K1 = K1
    K2 = K2
    Keys <- MCKeys
    KeyBytes <- MCKeyBytes
    Terms <- MCTerms
SPECIFICATION Spec
INVARIANT TemplateRoundTrip
INVARIANT MinimalTermPush
